---- MODULE Spec2Model ----
(***************************************************************************)
(* A state-machine model of the AnonyNet proxy servers.                    *)
(*                                                                         *)
(*   Spec      AnonyNetEnterpriseProxy: the accept loop, the handler       *)
(*             threads, the rate limiter and the connection pool           *)
(*   SpecRL    RateLimiter.check_limit called by concurrent threads        *)
(*   SpecPool  ConnectionPool.get_connection and return_connection called  *)
(*             by concurrent users of one full or empty pool               *)
(*   SpecTunnel  the bytes of one CONNECT connection of the enterprise     *)
(*             proxy, from the first recv to the end of _tunnel_data       *)
(*   SpecSrv   handle_https of AnonyNetProxyServer and of Dump/proxy_main  *)
(*   SpecNP    new_proxy.handle_client with is_domain_blocked              *)
(*   SpecBurst one client's burst of check_limit calls in one window       *)
(*   SpecHttp  the bytes of one plain HTTP forward of the enterprise proxy *)
(*   SpecStop  Spec with the accept loop's running test and stop()         *)
(*   SpecSni   _extract_sni on whole and damaged ClientHello records       *)
(*   SpecReq   one request before the enterprise handler, as bytes: the    *)
(*             first recv, the parsers, the gates, routing and the dial    *)
(*   SpecAdmin _handle_admin_request on the bytes of one request           *)
(*   SpecQuiet check_limit for a client that was denied, over a window     *)
(*   SpecTunnelLive  SpecTunnel with a relay thread that keeps running     *)
(*   SpecHC    AnonyNetProxyServer.handle_client: the target of a request  *)
(*   SpecNPC   the global counters of new_proxy under concurrent handlers  *)
(*                                                                         *)
(* Every specification shares the variables below; a specification leaves  *)
(* the variables of the other components unchanged.                        *)
(***************************************************************************)
EXTENDS Integers, Sequences, FiniteSets, TLC

(***************************************************************************)
(* Bounds of the model.                                                    *)
(***************************************************************************)
\* connections the accept loop takes in Spec
NConn == 2
\* config['max_connections'] of the modelled deployment
MaxConnections == 1
\* handlers using the pool concurrently in SpecPool
NUsers == 2
\* get_connection calls made after the initial state in SpecPool
MaxGets == 2
\* bytes the client sends after the CONNECT header block in SpecTunnel
MaxPayload == 2
\* chunks each peer sends through the tunnel in SpecSrv
MaxChunks == 2
\* labels of the host names new_proxy.handle_client is asked for in SpecNP
MaxLabels == 3
\* threads of one client calling check_limit in SpecBurst
NBurstThreads == 1
\* threads calling RateLimiter.check_limit concurrently
NThreads == 2
\* check_limit calls made after the initial state
MaxCalls == 3
\* clock advances (each of half a window) in SpecRL
MaxTicks == 2

(***************************************************************************)
(* Program constants.                                                      *)
(***************************************************************************)
\* RateLimiter.py:20  "if len(self.requests[client_ip]) >= 100"
Limit == 100
\* RateLimiter.py:17  "if now - t < 60"
Window == 60
\* ConnectionPool.py:41  "if len(self.pool[key]) < 10"
MaxPerKey == 10

VARIABLES
    \* ---- RateLimiter ----
    clock,        \* time.time(), in seconds
    requests,     \* RateLimiter.requests: client ip -> list of timestamps
    rlPc,         \* per thread: "idle" | "lock" (now read, waiting for self.lock)
    rlNow,        \* per thread: the local variable now
    rlIp,         \* per thread: the argument client_ip
    rlCalls,      \* number of check_limit calls started
    rlTicks,      \* number of clock advances
    permitted,    \* history: <<ip, now>> -> number of calls that returned True
    \* ---- ConnectionPool and the upstream sockets ----
    pool,         \* ConnectionPool.pool: (host, port) -> list of idle sockets
    opened,       \* upstream sockets the proxy has created
    sockClosed,   \* upstream sockets the proxy has called close() on
    peer,         \* per upstream socket: "none" | "open" | "fin" | "rst"
    \* ---- AnonyNetEnterpriseProxy ----
    accPc,        \* accept loop: "select" | "add" (thread started, line 127 next)
    accConn,      \* the connection _handle_new_connection is working on
    nextConn,     \* the next connection the listener will accept
    active_connections,
    adds,         \* per connection: effective active_connections.add calls
    removes,      \* per connection: discard calls that removed the id
    hpc,          \* per connection: position of its handler thread
    cip,          \* per connection: client_addr[0]
    proto,        \* per connection: context.protocol
    ukey,         \* per connection: (upstream.host, upstream.port)
    upstream_sock,\* per connection: the local upstream_sock (0 is None)
    clientCloses, \* per connection: close() calls on the client socket
    sent,         \* per connection: status lines sent to the client
    ended,        \* per connection: how the relay or forward ended
    \* ---- handlers using the pool (SpecPool) ----
    puPc,         \* per handler: "idle" | "holding"
    puSock,       \* per handler: its upstream_sock (0 is None)
    puKey,        \* per handler: (upstream.host, upstream.port)
    puGets,       \* get_connection calls made so far in SpecPool
    \* ---- one CONNECT connection, byte by byte (SpecTunnel) ----
    tPc,          \* handler: "recv" | "establish" | "select" | "loop" | "done"
    cPend,        \* bytes the client has still to send (0 is the CONNECT header block)
    cBuf,         \* bytes received on the client socket, not yet read
    cFin,         \* the client has closed its sending side
    uBuf,         \* bytes received on the upstream socket, not yet read
    uFin,         \* the upstream has closed its sending side
    toUp,         \* bytes the upstream socket has accepted from send()
    toCl,         \* bytes the client socket has accepted from send(), after the 200
    oEchoed,      \* how many bytes of toUp the origin has echoed
    ready,        \* read_ready still to be served by the for loop
    readC,        \* bytes the relay has read from the client socket
    readU,        \* bytes the relay has read from the upstream socket
    residual,     \* bytes of the first read after the header block
    tEnd,         \* how _tunnel_data ended
    \* ---- handle_https of AnonyNetProxyServer and of Dump/proxy_main (SpecSrv) ----
    sVariant,     \* "class" (AnonyNetProxyServer.handle_https) | "dump" (proxy_main.handle_https)
    sPc,          \* handler: "connect" | "select" | "loop" | "closed"
    sReady,       \* read_sockets still to be served by the for loop
    sPending,     \* per side: received data waits to be read
    sArrivals,    \* per side: chunks the peer has sent so far
    sEof,         \* per side: the peer has closed, recv returns b"" once the data is read
    sRst,         \* per side: the peer has reset, the next recv raises
    sOob,         \* urgent data waits on a socket (select's exceptional set)
    sHit,         \* the handler has read EOF or has seen a socket error
    sClosed,      \* per side: how many times the handler closed the socket
    \* ---- new_proxy.handle_client (SpecNP) ----
    npPc,         \* handler: "recv" | "parse" | "classify" | "respond" | "relay" | "done"
    npReq,        \* the request the client sends: method, path, host (labels), port
    npHost,       \* the local variable host, split at the dots
    npReason,     \* the local variable reason
    npIsBlocked,  \* the local variable is_blocked
    npSent,       \* responses written to the client socket
    npDialed,     \* socket.create_connection calls made
    npClosed,     \* how many times client_socket.close() ran
    \* ---- one client's burst of check_limit calls (SpecBurst) ----
    bResults,     \* what the calls returned, in the order they held self.lock
    \* ---- AnonyNetEnterpriseProxy.stop and the accept loop (SpecStop) ----
    running,      \* self.running
    loopIn,       \* the accept loop is past "while self.running" in this turn
    stopPc,       \* stop(): "idle" | "flag" (running cleared) | "done"
    serverClosed, \* the listening sockets are closed
    connsAtStop,  \* connections accepted before stop() returned
    \* one request before an Enterprise handler, byte by byte
    rqMeta,         \* what the client means to send (the request's make-up)
    rqData,         \* initial_data: the bytes the handler's recv returned
    rqPc,           \* the handler's position
    rqProto,        \* context.protocol
    rqTarget,       \* <<context.target_host, context.target_port>>
    rqSni,          \* context.sni, or the value _extract_sni returned
    rqDial,         \* the <<host, port>> pairs get_connection was called with
    rqSent,         \* the responses the handler wrote to the client
    rqClosed,       \* close() calls on the client socket
    \* the counters of _tunnel_data
    bytes_up,       \* its local bytes_up
    bytes_down,     \* its local bytes_down
    \* the global counters of new_proxy and its handler threads
    total_connections,      \* the global total_connections
    np_active_connections,  \* the global active_connections of new_proxy
    hPc,                    \* each handler thread's position
    hReg                    \* the value a thread has loaded for its "+= 1"

rlVars == <<clock, requests, rlPc, rlNow, rlIp, rlCalls, rlTicks, permitted>>
poolVars == <<pool, opened, sockClosed, peer>>
entVars == <<accPc, accConn, nextConn, active_connections, adds, removes, hpc,
             cip, proto, ukey, upstream_sock, clientCloses, sent, ended>>

puVars == <<puPc, puSock, puKey, puGets>>

tunVars == <<tPc, cPend, cBuf, cFin, uBuf, uFin, toUp, toCl, oEchoed, ready,
             readC, readU, residual, tEnd>>

srvVars == <<sVariant, sPc, sReady, sPending, sArrivals, sEof, sRst, sOob, sHit, sClosed>>

npVars == <<npPc, npReq, npHost, npReason, npIsBlocked, npSent, npDialed, npClosed>>

burstVars == <<bResults>>

stopVars == <<running, loopIn, stopPc, serverClosed, connsAtStop>>

reqVars == <<rqMeta, rqData, rqPc, rqProto, rqTarget, rqSni, rqDial, rqSent, rqClosed>>

cntVars == <<bytes_up, bytes_down>>

npcVars == <<total_connections, np_active_connections, hPc, hReg>>

vars == <<rlVars, poolVars, entVars, puVars, tunVars, srvVars, npVars, burstVars, stopVars, reqVars, cntVars, npcVars>>

\* what the actions of one component leave alone
outsideRL == <<poolVars, entVars, puVars, tunVars, srvVars, npVars, burstVars, stopVars, reqVars, cntVars, npcVars>>
outsideEnt == <<puVars, tunVars, srvVars, npVars, burstVars, stopVars, reqVars, cntVars, npcVars>>
outsidePool == <<rlVars, entVars, tunVars, srvVars, npVars, burstVars, stopVars, reqVars, cntVars, npcVars>>
outsideTunnel == <<rlVars, poolVars, entVars, puVars, srvVars, npVars, burstVars, stopVars, reqVars, npcVars>>
outsideSrv == <<rlVars, poolVars, entVars, puVars, tunVars, npVars, burstVars, stopVars, reqVars, cntVars, npcVars>>
outsideNP == <<rlVars, poolVars, entVars, puVars, tunVars, srvVars, burstVars, stopVars, reqVars, cntVars, npcVars>>
outsideBurst == <<poolVars, entVars, puVars, tunVars, srvVars, npVars, stopVars, reqVars, cntVars, npcVars>>
outsideStop == <<rlVars, poolVars, entVars, puVars, tunVars, srvVars, npVars, burstVars, reqVars, cntVars, npcVars>>
outsideReq == <<poolVars, entVars, puVars, tunVars, srvVars, npVars, burstVars, stopVars, cntVars, npcVars>>
outsideNPC == <<rlVars, poolVars, entVars, puVars, tunVars, srvVars, npVars, burstVars, stopVars, reqVars, cntVars>>

(***************************************************************************)
(* Universes                                                               *)
(***************************************************************************)
IPs == {"10.0.0.1", "10.0.0.2"}
Threads == 1..NThreads
Conns == 1..NConn
Users == 1..NUsers
\* the socket that connection c dials is socket c; 0 stands for None
Socks == 1..NConn
NoSock == 0
\* the hosts the clients name, and the hosts among them that contain the
\* text 'google.com'
Hosts == {"example.test", "mail.google.com"}
GoogleHosts == {"mail.google.com"}
Keys == {<<"example.test", 443>>, <<"example.test", 80>>, <<"google.com", 443>>}

\* the state of the components a specification does not exercise
NPCIdle ==
    /\ total_connections = 0
    /\ np_active_connections = 0
    /\ hPc = [t \in Threads |-> "idle"]
    /\ hReg = [t \in Threads |-> 0]

CntIdle ==
    /\ bytes_up = 0
    /\ bytes_down = 0

ReqIdle ==
    /\ rqMeta = [kind |-> "none"]
    /\ rqData = <<>>
    /\ rqPc = "idle"
    /\ rqProto = "none"
    /\ rqTarget = <<>>
    /\ rqSni = [t |-> "none", s |-> <<>>]
    /\ rqDial = <<>>
    /\ rqSent = <<>>
    /\ rqClosed = 0

StopIdle ==
    /\ running = TRUE
    /\ loopIn = FALSE
    /\ stopPc = "idle"
    /\ serverClosed = FALSE
    /\ connsAtStop = 0

BurstIdle ==
    /\ bResults = <<>>

NPIdle ==
    /\ npPc = "done"
    /\ npReq = [method |-> "CONNECT", path |-> "", host |-> <<"example">>, port |-> 443]
    /\ npHost = <<>>
    /\ npReason = [t |-> "none"]
    /\ npIsBlocked = [t |-> "none"]
    /\ npSent = <<>>
    /\ npDialed = 0
    /\ npClosed = 0

PoolIdle ==
    /\ pool = [k \in Keys |-> <<>>]
    /\ opened = {}
    /\ sockClosed = {}
    /\ peer = [s \in Socks |-> "none"]

EntIdle ==
    /\ accPc = "select"
    /\ accConn = 0
    /\ nextConn = 1
    /\ active_connections = {}
    /\ adds = [c \in Conns |-> 0]
    /\ removes = [c \in Conns |-> 0]
    /\ hpc = [c \in Conns |-> "none"]
    /\ cip = [c \in Conns |-> "10.0.0.1"]
    /\ proto = [c \in Conns |-> "none"]
    /\ ukey = [c \in Conns |-> <<"example.test", 443>>]
    /\ upstream_sock = [c \in Conns |-> NoSock]
    /\ clientCloses = [c \in Conns |-> 0]
    /\ sent = [c \in Conns |-> <<>>]
    /\ ended = [c \in Conns |-> "none"]

PUIdle ==
    /\ puPc = [u \in Users |-> "idle"]
    /\ puSock = [u \in Users |-> NoSock]
    /\ puKey = [u \in Users |-> <<"example.test", 443>>]
    /\ puGets = 0

Sides == {"client", "proxy"}

SrvIdle ==
    /\ sVariant = "class"
    /\ sPc = "closed"
    /\ sReady = <<>>
    /\ sPending = [x \in Sides |-> FALSE]
    /\ sArrivals = [x \in Sides |-> 0]
    /\ sEof = [x \in Sides |-> FALSE]
    /\ sRst = [x \in Sides |-> FALSE]
    /\ sOob = FALSE
    /\ sHit = FALSE
    /\ sClosed = [x \in Sides |-> 0]

TunIdle ==
    /\ tPc = "done"
    /\ cPend = <<>>
    /\ cBuf = <<>>
    /\ cFin = FALSE
    /\ uBuf = <<>>
    /\ uFin = FALSE
    /\ toUp = <<>>
    /\ toCl = <<>>
    /\ oEchoed = 0
    /\ ready = <<>>
    /\ readC = <<>>
    /\ readU = <<>>
    /\ residual = <<>>
    /\ tEnd = "none"

RLIdle ==
    /\ rlPc = [t \in Threads |-> "idle"]
    /\ rlNow = [t \in Threads |-> 0]
    /\ rlIp = [t \in Threads |-> "10.0.0.1"]
    /\ rlCalls = 0
    /\ rlTicks = 0

(***************************************************************************)
(* RateLimiter                                                             *)
(***************************************************************************)

\* the list comprehension with "now - t <= 60" in place of "now - t < 60"
Prune_Inclusive(bucket, now) ==
    SelectSeq(bucket, LAMBDA t : now - t <= Window)

\* the list comprehension of check_limit: keep the timestamps younger than
\* the window, in order
Prune(bucket, now) ==
    SelectSeq(bucket, LAMBDA t : now - t < Window)

\* check_limit that records the timestamp of a denied call too
CheckLimit_AppendOnDeny(reqs, ip, now) ==
    LET kept == Prune(reqs[ip], now) IN
    [ok |-> Len(kept) < Limit, reqs |-> [reqs EXCEPT ![ip] = Append(kept, now)]]

\* check_limit with "len(...) > 100" in place of "len(...) >= 100"
CheckLimit_OffByOne(reqs, ip, now) ==
    LET kept == Prune(reqs[ip], now) IN
    IF Len(kept) > Limit
    THEN [ok |-> FALSE, reqs |-> [reqs EXCEPT ![ip] = kept]]
    ELSE [ok |-> TRUE,  reqs |-> [reqs EXCEPT ![ip] = Append(kept, now)]]

\* the part of check_limit that runs under self.lock, as a function of the
\* table, the client and the timestamp the caller read before the lock;
\* the result is the return value and the table afterwards
CheckLimit(reqs, ip, now) ==
    LET kept == Prune(reqs[ip], now) IN
    IF Len(kept) >= Limit
    THEN [ok |-> FALSE, reqs |-> [reqs EXCEPT ![ip] = kept]]
    ELSE [ok |-> TRUE,  reqs |-> [reqs EXCEPT ![ip] = Append(kept, now)]]

\* the instants the model's clock takes
ClockValues == {k * (Window \div 2) : k \in 0..MaxTicks}

\* the clients' earlier traffic: the bucket of the first client holds n
\* timestamps of the current second, each of a call that returned True
FilledBucket(n) == [i \in 1..n |-> 0]
FilledHistory(n) ==
    [k \in IPs \X ClockValues |-> IF k = <<"10.0.0.1", 0>> THEN n ELSE 0]
RateFills == {0, Limit - 1}

InitRL ==
    /\ NPCIdle
    /\ CntIdle
    /\ ReqIdle
    /\ StopIdle
    /\ BurstIdle
    /\ NPIdle
    /\ SrvIdle
    /\ PoolIdle
    /\ EntIdle
    /\ PUIdle
    /\ TunIdle
    /\ clock = 0
    /\ \E n \in RateFills :
          /\ requests = [ip \in IPs |-> IF ip = "10.0.0.1" THEN FilledBucket(n) ELSE <<>>]
          /\ permitted = FilledHistory(n)
    /\ RLIdle

\* check_limit, first statement: now = time.time(), outside the lock
RL_ReadNow(t, ip) ==
    /\ rlPc[t] = "idle"
    /\ rlCalls < MaxCalls
    /\ rlPc' = [rlPc EXCEPT ![t] = "lock"]
    /\ rlNow' = [rlNow EXCEPT ![t] = clock]
    /\ rlIp' = [rlIp EXCEPT ![t] = ip]
    /\ rlCalls' = rlCalls + 1
    /\ UNCHANGED <<clock, requests, rlTicks, permitted, outsideRL>>

\* check_limit, the with self.lock block and the return
RL_Locked(t) ==
    /\ rlPc[t] = "lock"
    /\ LET r == CheckLimit(requests, rlIp[t], rlNow[t]) IN
          /\ requests' = r.reqs
          /\ permitted' = IF r.ok
                          THEN [permitted EXCEPT ![<<rlIp[t], rlNow[t]>>] = @ + 1]
                          ELSE permitted
    /\ rlPc' = [rlPc EXCEPT ![t] = "idle"]
    /\ UNCHANGED <<clock, rlNow, rlIp, rlCalls, rlTicks, outsideRL>>

\* time passes: half a window at a time
RL_Tick ==
    /\ rlTicks < MaxTicks
    /\ clock' = clock + (Window \div 2)
    /\ rlTicks' = rlTicks + 1
    /\ UNCHANGED <<requests, rlPc, rlNow, rlIp, rlCalls, permitted, outsideRL>>

NextRL ==
    \/ \E t \in Threads, ip \in IPs : RL_ReadNow(t, ip)
    \/ \E t \in Threads : RL_Locked(t)
    \/ RL_Tick

SpecRL == InitRL /\ [][NextRL]_vars

\* the number of calls for ip that were made (read the time) in the window
\* of length Window that ends at w, and returned True
RECURSIVE SumPermitted(_, _)
SumPermitted(ip, S) ==
    IF S = {} THEN 0
    ELSE LET t == CHOOSE x \in S : TRUE
         IN permitted[<<ip, t>>] + SumPermitted(ip, S \ {t})
PermittedInWindow(ip, w) ==
    SumPermitted(ip, {t \in ClockValues : w - Window < t /\ t <= w})

\* C2: for every client and every sliding window of Window seconds, at most
\* Limit of the check_limit calls made in the window return True, whatever
\* the interleaving of the callers.
C2_WindowLimit ==
    \A ip \in IPs : \A w \in ClockValues :
        PermittedInWindow(ip, w) <= Limit

(***************************************************************************)
(* ConnectionPool                                                          *)
(***************************************************************************)
\* sock.getpeername() succeeds on a connected socket, also after the peer
\* has sent FIN (the socket is in CLOSE_WAIT); it raises ENOTCONN once the
\* connection has been reset
GetPeerNameOK(s) == peer[s] \in {"open", "fin"}

\* get_connection that reads the last socket of the list and leaves it there
PoolGet_NoPop(p, key) ==
    IF p[key] # <<>>
    THEN LET s == p[key][Len(p[key])]
         IN IF GetPeerNameOK(s)
            THEN [sock |-> s, pool |-> p]
            ELSE [sock |-> NoSock, pool |-> p]
    ELSE [sock |-> NoSock, pool |-> p]

\* get_connection, the with self.lock block: the socket it returns from the
\* pool (NoSock when it falls through to the dial) and the pool afterwards.
\* A popped socket that fails the probe is dropped, not closed.
PoolGet(p, key) ==
    IF p[key] # <<>>
    THEN LET s == p[key][Len(p[key])]
             rest == [p EXCEPT ![key] = SubSeq(@, 1, Len(@) - 1)]
         IN IF GetPeerNameOK(s)
            THEN [sock |-> s, pool |-> rest]
            ELSE [sock |-> NoSock, pool |-> rest]
    ELSE [sock |-> NoSock, pool |-> p]

\* return_connection with the cap test off by one (<= for <)
PoolReturn_OffByOne(p, cl, key, s) ==
    IF Len(p[key]) <= MaxPerKey
    THEN [pool |-> [p EXCEPT ![key] = Append(@, s)], closed |-> cl]
    ELSE [pool |-> p, closed |-> cl \cup {s}]

\* return_connection: the pool and the closed sockets afterwards
PoolReturn(p, cl, key, s) ==
    IF Len(p[key]) < MaxPerKey
    THEN [pool |-> [p EXCEPT ![key] = Append(@, s)], closed |-> cl]
    ELSE [pool |-> p, closed |-> cl \cup {s}]

InPool(s) == \E k \in Keys : \E i \in DOMAIN pool[k] : pool[k][i] = s

(***************************************************************************)
(* RoutingEngine                                                           *)
(***************************************************************************)
\* RoutingEngine.route with context.sni None (the first read of a CONNECT
\* starts with the request line, so _extract_sni gives None): the upstream
\* for a target host, or the target itself when no rule matches
Upstream(host, port) ==
    IF host \in GoogleHosts THEN <<"google.com", 443>> ELSE <<host, port>>

(***************************************************************************)
(* AnonyNetEnterpriseProxy                                                 *)
(***************************************************************************)
Init ==
    /\ NPCIdle
    /\ CntIdle
    /\ ReqIdle
    /\ StopIdle
    /\ BurstIdle
    /\ NPIdle
    /\ SrvIdle
    /\ PoolIdle
    /\ EntIdle
    /\ PUIdle
    /\ TunIdle
    /\ RLIdle
    /\ clock = 0
    /\ \E n \in RateFills :
          /\ requests = [ip \in IPs |-> IF ip = "10.0.0.1" THEN FilledBucket(n) ELSE <<>>]
          /\ permitted = FilledHistory(n)

\* _handle_new_connection that forgets client_socket.close() when the limit
\* is reached
HandleNewConnection_NoClose(c, ip) ==
    /\ accPc = "select"
    /\ c = nextConn
    /\ c \in Conns
    /\ nextConn' = nextConn + 1
    /\ cip' = [cip EXCEPT ![c] = ip]
    /\ IF Cardinality(active_connections) >= MaxConnections
       THEN /\ hpc' = [hpc EXCEPT ![c] = "rejected"]
            /\ UNCHANGED <<accPc, accConn>>
       ELSE /\ hpc' = [hpc EXCEPT ![c] = "recv"]
            /\ accPc' = "add"
            /\ accConn' = c
    /\ UNCHANGED <<outsideEnt, clientCloses, active_connections, adds, removes, proto,
                   ukey, upstream_sock, sent, ended, rlVars, poolVars>>

\* _handle_new_connection with "len(...) > max_connections" in place of ">="
HandleNewConnection_OverLimit(c, ip) ==
    /\ accPc = "select"
    /\ c = nextConn
    /\ c \in Conns
    /\ nextConn' = nextConn + 1
    /\ cip' = [cip EXCEPT ![c] = ip]
    /\ IF Cardinality(active_connections) > MaxConnections
       THEN /\ clientCloses' = [clientCloses EXCEPT ![c] = @ + 1]
            /\ hpc' = [hpc EXCEPT ![c] = "rejected"]
            /\ UNCHANGED <<accPc, accConn>>
       ELSE /\ hpc' = [hpc EXCEPT ![c] = "recv"]
            /\ accPc' = "add"
            /\ accConn' = c
            /\ UNCHANGED clientCloses
    /\ UNCHANGED <<outsideEnt, active_connections, adds, removes, proto, ukey, upstream_sock,
                   sent, ended, rlVars, poolVars>>

\* _handle_new_connection up to thread.start(): the accept loop takes the
\* next connection; over the limit it closes the socket and returns,
\* otherwise it starts the handler thread
HandleNewConnection(c, ip) ==
    /\ accPc = "select"
    /\ c = nextConn
    /\ c \in Conns
    /\ nextConn' = nextConn + 1
    /\ cip' = [cip EXCEPT ![c] = ip]
    /\ IF Cardinality(active_connections) >= MaxConnections
       THEN /\ clientCloses' = [clientCloses EXCEPT ![c] = @ + 1]
            /\ hpc' = [hpc EXCEPT ![c] = "rejected"]
            /\ UNCHANGED <<accPc, accConn>>
       ELSE /\ hpc' = [hpc EXCEPT ![c] = "recv"]
            /\ accPc' = "add"
            /\ accConn' = c
            /\ UNCHANGED clientCloses
    /\ UNCHANGED <<outsideEnt, active_connections, adds, removes, proto, ukey, upstream_sock,
                   sent, ended, rlVars, poolVars>>

\* _handle_new_connection, last statement: self.active_connections.add(id)
AddActive ==
    /\ accPc = "add"
    /\ active_connections' = active_connections \cup {accConn}
    /\ adds' = [adds EXCEPT ![accConn] = IF accConn \in active_connections THEN @ ELSE @ + 1]
    /\ accPc' = "select"
    /\ UNCHANGED <<outsideEnt, accConn, nextConn, removes, hpc, cip, proto, ukey, upstream_sock,
                   clientCloses, sent, ended, rlVars, poolVars>>

\* _send_http_response that builds the response and does not send it
SendHttpResponse_NotSent(c, status) ==
    sent' = sent

\* _send_http_response: the status line goes to the client; the socket is
\* left open
SendHttpResponse(c, status) ==
    sent' = [sent EXCEPT ![c] = Append(@, status)]

\* _process_connection from settimeout(10) and recv(4096) to the dispatch,
\* and _handle_https_connection or _handle_http_connection up to the
\* routing.  The read gives nothing, times out, raises, or gives a request
\* for a host; check_access is always True; check_limit decides; a denial
\* sends the 429.  The clock of this specification stands still, so the
\* time check_limit reads before its lock is the time under the lock.
ProcessConnection(c, outcome, host) ==
    /\ hpc[c] = "recv"
    /\ \/ /\ outcome \in {"empty", "timeout", "error"}
          /\ hpc' = [hpc EXCEPT ![c] = "finally"]
          /\ ended' = [ended EXCEPT ![c] = outcome]
          /\ UNCHANGED <<proto, ukey, sent, requests, permitted>>
       \/ /\ outcome \in {"connect", "http"}
          /\ proto' = [proto EXCEPT ![c] = IF outcome = "connect" THEN "https" ELSE "http"]
          /\ ukey' = [ukey EXCEPT ![c] =
                         Upstream(host, IF outcome = "connect" THEN 443 ELSE 80)]
          /\ LET r == CheckLimit(requests, cip[c], clock) IN
                /\ requests' = r.reqs
                /\ permitted' = IF r.ok
                                THEN [permitted EXCEPT ![<<cip[c], clock>>] = @ + 1]
                                ELSE permitted
                /\ IF r.ok
                   THEN /\ hpc' = [hpc EXCEPT ![c] = "get"]
                        /\ UNCHANGED <<sent, ended>>
                   ELSE /\ SendHttpResponse(c, "429")
                        /\ hpc' = [hpc EXCEPT ![c] = "finally"]
                        /\ ended' = [ended EXCEPT ![c] = "denied"]
    /\ UNCHANGED <<outsideEnt, clock, rlPc, rlNow, rlIp, rlCalls, rlTicks, poolVars,
                   accPc, accConn, nextConn, active_connections, adds, removes,
                   cip, upstream_sock, clientCloses>>

\* a handler that answers 200 before it has its upstream: the 200 is sent
\* at the call of get_connection, whatever the dial gives
GetConnection_200First(c, ok) ==
    /\ hpc[c] = "get"
    /\ sent' = [sent EXCEPT ![c] = Append(@, "200")]
    /\ ended' = [ended EXCEPT ![c] = IF ok THEN "idle" ELSE "dial_failed"]
    /\ hpc' = [hpc EXCEPT ![c] = "finally"]
    /\ UNCHANGED <<outsideEnt, poolVars, rlVars,
                   accPc, accConn, nextConn, active_connections, adds, removes,
                   cip, proto, ukey, upstream_sock, clientCloses>>

\* get_connection, called from _establish_tunnel or _forward_http_request:
\* the locked pop and probe, and when that gives no socket the dial
\* (socket(), settimeout(30), connect()).  A failed connect raises; the
\* caller logs it and, upstream_sock being None, returns nothing to the pool.
GetConnection(c, ok) ==
    /\ hpc[c] = "get"
    /\ LET r == PoolGet(pool, ukey[c]) IN
          /\ pool' = r.pool
          /\ IF r.sock # NoSock
             THEN /\ ok
                  /\ upstream_sock' = [upstream_sock EXCEPT ![c] = r.sock]
                  /\ hpc' = [hpc EXCEPT ![c] = "relay"]
                  /\ UNCHANGED <<opened, peer, ended>>
             ELSE /\ opened' = opened \cup {c}
                  /\ IF ok
                     THEN /\ peer' = [peer EXCEPT ![c] = "open"]
                          /\ upstream_sock' = [upstream_sock EXCEPT ![c] = c]
                          /\ hpc' = [hpc EXCEPT ![c] = "relay"]
                          /\ UNCHANGED ended
                     ELSE /\ hpc' = [hpc EXCEPT ![c] = "finally"]
                          /\ ended' = [ended EXCEPT ![c] = "dial_failed"]
                          /\ UNCHANGED <<peer, upstream_sock>>
    /\ UNCHANGED <<outsideEnt, sockClosed, rlVars,
                   accPc, accConn, nextConn, active_connections, adds, removes,
                   cip, proto, ukey, clientCloses, sent>>

\* how a relay or a forward leaves the peer of the upstream socket
PeerAfter(how, before) ==
    CASE how = "upstream_eof" -> "fin"
      [] how = "upstream_error" -> "rst"
      [] OTHER -> before

\* _establish_tunnel after get_connection: the 200 to the client, then
\* _tunnel_data from its first select to its return.  The send of the 200
\* may raise; the relay ends on the EOF of either side, on an exception of
\* either socket, or on the idle timeout.
EstablishTunnel(c, how) ==
    /\ hpc[c] = "relay"
    /\ proto[c] = "https"
    /\ how \in {"send_failed", "client_eof", "upstream_eof", "client_error",
                "upstream_error", "idle"}
    /\ sent' = [sent EXCEPT ![c] = IF how = "send_failed" THEN @ ELSE Append(@, "200")]
    /\ ended' = [ended EXCEPT ![c] = how]
    /\ peer' = [peer EXCEPT ![upstream_sock[c]] = PeerAfter(how, @)]
    /\ hpc' = [hpc EXCEPT ![c] = "return"]
    /\ UNCHANGED <<outsideEnt, pool, opened, sockClosed, rlVars,
                   accPc, accConn, nextConn, active_connections, adds, removes,
                   cip, proto, ukey, upstream_sock, clientCloses>>

\* _forward_http_request after get_connection: send(raw_data), then the
\* loop that copies the response until the upstream's EOF; any exception
\* (a reset, the 30 s timeout, a client that went away) ends it
ForwardHttpRequest(c, how) ==
    /\ hpc[c] = "relay"
    /\ proto[c] = "http"
    /\ how \in {"upstream_eof", "client_error", "upstream_error"}
    /\ ended' = [ended EXCEPT ![c] = how]
    /\ peer' = [peer EXCEPT ![upstream_sock[c]] = PeerAfter(how, @)]
    /\ hpc' = [hpc EXCEPT ![c] = "return"]
    /\ UNCHANGED <<outsideEnt, pool, opened, sockClosed, rlVars,
                   accPc, accConn, nextConn, active_connections, adds, removes,
                   cip, proto, ukey, upstream_sock, clientCloses, sent>>

\* the finally of _establish_tunnel and of _forward_http_request:
\* return_connection(upstream.host, upstream.port, upstream_sock)
ReturnConnection(c) ==
    /\ hpc[c] = "return"
    /\ LET r == PoolReturn(pool, sockClosed, ukey[c], upstream_sock[c]) IN
          /\ pool' = r.pool
          /\ sockClosed' = r.closed
    /\ hpc' = [hpc EXCEPT ![c] = "finally"]
    /\ UNCHANGED <<outsideEnt, opened, peer, rlVars,
                   accPc, accConn, nextConn, active_connections, adds, removes,
                   cip, proto, ukey, upstream_sock, clientCloses, sent, ended>>

\* the finally of _process_connection:
\* self.active_connections.discard(context.connection_id), then
\* context.client_socket.close(); the thread ends
Finally(c) ==
    /\ hpc[c] = "finally"
    /\ active_connections' = active_connections \ {c}
    /\ removes' = [removes EXCEPT ![c] = IF c \in active_connections THEN @ + 1 ELSE @]
    /\ clientCloses' = [clientCloses EXCEPT ![c] = @ + 1]
    /\ hpc' = [hpc EXCEPT ![c] = "done"]
    /\ UNCHANGED <<outsideEnt, rlVars, poolVars, accPc, accConn, nextConn, adds,
                   cip, proto, ukey, upstream_sock, sent, ended>>

Next ==
    \/ \E c \in Conns, ip \in {"10.0.0.1"} : HandleNewConnection(c, ip)
    \/ AddActive
    \/ \E c \in Conns, o \in {"empty", "timeout", "error", "connect", "http"}, h \in Hosts :
          ProcessConnection(c, o, h)
    \/ \E c \in Conns, ok \in BOOLEAN : GetConnection(c, ok)
    \/ \E c \in Conns, how \in {"send_failed", "client_eof", "upstream_eof",
                                "client_error", "upstream_error", "idle"} :
          EstablishTunnel(c, how)
    \/ \E c \in Conns, how \in {"upstream_eof", "client_error", "upstream_error"} :
          ForwardHttpRequest(c, how)
    \/ \E c \in Conns : ReturnConnection(c)
    \/ \E c \in Conns : Finally(c)

Spec == Init /\ [][Next]_vars

\* C1: every admitted connection's id is added to active_connections once
\* and removed once, and once its handler thread has finished the id is no
\* longer in active_connections, under every interleaving of the accept
\* loop and the handler.
C1_ActiveOnce ==
    \A c \in Conns :
        /\ adds[c] <= 1
        /\ removes[c] <= 1
        /\ hpc[c] = "done" => c \notin active_connections

\* C4: get_connection never hands out a pooled socket whose peer has closed
\* the connection: a handler that has just been given a socket from the pool
\* holds one whose peer is still open.
C4_NoDeadPooledSocket ==
    \A c \in Conns :
        (hpc[c] = "relay" /\ upstream_sock[c] # c) => peer[upstream_sock[c]] = "open"

\* C9: when a tunnel has ended, for whatever reason, its upstream socket is
\* closed and is not in the connection pool.
C9_TunnelConsumesUpstream ==
    \A c \in Conns :
        (proto[c] = "https" /\ hpc[c] \in {"finally", "done"} /\ upstream_sock[c] # NoSock)
            => (upstream_sock[c] \in sockClosed /\ ~InPool(upstream_sock[c]))

\* C10: close is called exactly once on every accepted client socket on
\* every path: no socket is closed twice, a connection that was rejected at
\* admission or whose handler has finished has been closed once, and no
\* other has been closed.
C10_ClientClosedOnce ==
    \A c \in Conns :
        clientCloses[c] = IF hpc[c] \in {"rejected", "done"} THEN 1 ELSE 0

\* C10 witness: one connection was rejected at admission and another went
\* through a tunnel to the end of its handler; each socket was closed once.
C10_Witness ==
    \E c, d \in Conns :
        /\ hpc[c] = "rejected" /\ clientCloses[c] = 1
        /\ hpc[d] = "done" /\ proto[d] = "https" /\ sent[d] = <<"200">>
        /\ clientCloses[d] = 1

\* the handler threads that are running: started and not yet finished
Running == {c \in Conns : hpc[c] \in {"recv", "get", "relay", "return", "finally"}}

\* C15: when check_limit denies the source address the handler replies 429,
\* acquires no upstream connection, and goes on only to its end, where the
\* client socket is closed.
C15_DeniedGets429 ==
    \A c \in Conns :
        ended[c] = "denied"
            => /\ sent[c] = <<"429">>
               /\ upstream_sock[c] = NoSock
               /\ c \notin opened
               /\ hpc[c] \in {"finally", "done"}
               /\ (hpc[c] = "done" => clientCloses[c] = 1)

\* C15 witness: a denied connection has run to its end.
C15_Witness ==
    \E c \in Conns :
        ended[c] = "denied" /\ hpc[c] = "done" /\ sent[c] = <<"429">> /\ clientCloses[c] = 1

\* C16: when acquiring the upstream of a CONNECT tunnel fails, the client
\* has been sent 502 Bad Gateway by the time its socket is closed.
C16_DialFailureGets502 ==
    \A c \in Conns :
        (proto[c] = "https" /\ ended[c] = "dial_failed" /\ hpc[c] = "done")
            => \E i \in 1..Len(sent[c]) : sent[c][i] = "502"

\* C17: when the dial inside get_connection has failed, the socket created
\* for the dial is closed and the pool holds no entry for that upstream.
C17_FailedDialReleased ==
    \A c \in Conns :
        ended[c] = "dial_failed"
            => /\ c \in sockClosed
               /\ pool[ukey[c]] = <<>>

\* C18: never more than max_connections handlers run at once, and a
\* connection accepted at the limit is closed at once, is sent nothing and
\* gets no handler thread.
C18_ConnectionLimit ==
    /\ Cardinality(Running) <= MaxConnections
    /\ \A c \in Conns :
          hpc[c] = "rejected"
              => /\ clientCloses[c] = 1
                 /\ sent[c] = <<>>
                 /\ ended[c] = "none"
                 /\ c \notin active_connections

\* C18 witness: a connection was turned away while as many handlers as the
\* limit allows were running.
C18_Witness ==
    /\ Cardinality(Running) = MaxConnections
    /\ \E c \in Conns : hpc[c] = "rejected" /\ clientCloses[c] = 1

(***************************************************************************)
(* SpecPool: handlers that use the pool concurrently.  The initial states  *)
(* are snapshots of a busy proxy: the pool holds idle sockets that earlier *)
(* handlers returned for one upstream, and some handlers are in their      *)
(* relay with a socket they dialled while the pool was empty.              *)
(***************************************************************************)
PoolSocks == 1..(MaxPerKey + NUsers + MaxGets)
PoolFills == {0, MaxPerKey - 1}
PoolKeys == {<<"example.test", 443>>, <<"example.test", 80>>}

InitPool ==
    /\ NPCIdle
    /\ CntIdle
    /\ ReqIdle
    /\ StopIdle
    /\ BurstIdle
    /\ NPIdle
    /\ SrvIdle
    /\ EntIdle
    /\ TunIdle
    /\ RLIdle
    /\ clock = 0
    /\ requests = [ip \in IPs |-> <<>>]
    /\ permitted = FilledHistory(0)
    /\ \E f \in PoolFills, H \in SUBSET Users :
          /\ pool = [k \in Keys |->
                        IF k = <<"example.test", 443>> THEN [i \in 1..f |-> i] ELSE <<>>]
          /\ puPc = [u \in Users |-> IF u \in H THEN "holding" ELSE "idle"]
          /\ puSock = [u \in Users |-> IF u \in H THEN MaxPerKey + u ELSE NoSock]
          /\ opened = (1..f) \cup {MaxPerKey + u : u \in H}
          /\ peer = [s \in PoolSocks |->
                        IF s \in (1..f) \cup {MaxPerKey + u : u \in H} THEN "open" ELSE "none"]
    /\ puKey = [u \in Users |-> <<"example.test", 443>>]
    /\ puGets = 0
    /\ sockClosed = {}

\* the first statement of the try of _establish_tunnel and of
\* _forward_http_request: upstream_sock = get_connection(host, port), the
\* locked pop and probe and, when that gives no socket, the dial
PoolUserGet(u, key, ok) ==
    /\ puPc[u] = "idle"
    /\ puGets < MaxGets
    /\ puGets' = puGets + 1
    /\ LET r == PoolGet(pool, key)
           fresh == MaxPerKey + NUsers + puGets + 1
       IN /\ pool' = r.pool
          /\ puKey' = [puKey EXCEPT ![u] = key]
          /\ IF r.sock # NoSock
             THEN /\ ok
                  /\ puSock' = [puSock EXCEPT ![u] = r.sock]
                  /\ puPc' = [puPc EXCEPT ![u] = "holding"]
                  /\ UNCHANGED <<opened, peer>>
             ELSE /\ opened' = opened \cup {fresh}
                  /\ IF ok
                     THEN /\ peer' = [peer EXCEPT ![fresh] = "open"]
                          /\ puSock' = [puSock EXCEPT ![u] = fresh]
                          /\ puPc' = [puPc EXCEPT ![u] = "holding"]
                     ELSE UNCHANGED <<peer, puSock, puPc>>
    /\ UNCHANGED <<sockClosed, outsidePool>>

\* the relay or the forward between get_connection and the finally: it
\* leaves the upstream connected, or reset
PoolUserRelay(u, how) ==
    /\ puPc[u] = "holding"
    /\ how \in {"client_eof", "upstream_error"}
    /\ peer' = [peer EXCEPT ![puSock[u]] = PeerAfter(how, @)]
    /\ puPc' = [puPc EXCEPT ![u] = "return"]
    /\ UNCHANGED <<pool, opened, sockClosed, puSock, puKey, puGets, outsidePool>>

\* the finally of _establish_tunnel and of _forward_http_request:
\* return_connection(upstream.host, upstream.port, upstream_sock)
PoolUserReturn(u) ==
    /\ puPc[u] = "return"
    /\ LET r == PoolReturn(pool, sockClosed, puKey[u], puSock[u]) IN
          /\ pool' = r.pool
          /\ sockClosed' = r.closed
    /\ puPc' = [puPc EXCEPT ![u] = "idle"]
    /\ UNCHANGED <<opened, peer, puSock, puKey, puGets, outsidePool>>

NextPool ==
    \/ \E u \in Users, k \in PoolKeys, ok \in BOOLEAN : PoolUserGet(u, k, ok)
    \/ \E u \in Users, how \in {"client_eof", "upstream_error"} :
          PoolUserRelay(u, how)
    \/ \E u \in Users : PoolUserReturn(u)

SpecPool == InitPool /\ [][NextPool]_vars

Payload(n) == [i \in 1..n |-> i]

InitTunnel ==
    /\ NPCIdle
    /\ CntIdle
    /\ ReqIdle
    /\ StopIdle
    /\ BurstIdle
    /\ NPIdle
    /\ SrvIdle
    /\ PoolIdle
    /\ EntIdle
    /\ PUIdle
    /\ RLIdle
    /\ clock = 0
    /\ requests = [ip \in IPs |-> <<>>]
    /\ permitted = FilledHistory(0)
    /\ tPc = "recv"
    /\ \E n \in 0..MaxPayload : cPend = <<0>> \o Payload(n)
    /\ cBuf = <<>>
    /\ cFin = FALSE
    /\ uBuf = <<>>
    /\ uFin = FALSE
    /\ toUp = <<>>
    /\ toCl = <<>>
    /\ oEchoed = 0
    /\ ready = <<>>
    /\ readC = <<>>
    /\ readU = <<>>
    /\ residual = <<>>
    /\ tEnd = "none"

\* the client's next byte (or its header block) arrives at the proxy
ClientSends ==
    /\ cPend # <<>>
    /\ cBuf' = Append(cBuf, Head(cPend))
    /\ cPend' = Tail(cPend)
    /\ UNCHANGED <<tPc, cFin, uBuf, uFin, toUp, toCl, oEchoed, ready, readC, readU,
                   residual, tEnd, cntVars, outsideTunnel>>

\* the client, having sent everything, closes its sending side
ClientCloses ==
    /\ cPend = <<>>
    /\ ~cFin
    /\ cFin' = TRUE
    /\ UNCHANGED <<tPc, cPend, cBuf, uBuf, uFin, toUp, toCl, oEchoed, ready, readC,
                   readU, residual, tEnd, cntVars, outsideTunnel>>

\* the origin echoes the next byte it has received
OriginEchoes ==
    /\ ~uFin
    /\ oEchoed < Len(toUp)
    /\ uBuf' = Append(uBuf, toUp[oEchoed + 1])
    /\ oEchoed' = oEchoed + 1
    /\ UNCHANGED <<tPc, cPend, cBuf, cFin, uFin, toUp, toCl, ready, readC, readU,
                   residual, tEnd, cntVars, outsideTunnel>>

\* the origin closes its sending side
OriginCloses ==
    /\ tPc \in {"select", "loop"}
    /\ ~uFin
    /\ uFin' = TRUE
    /\ UNCHANGED <<tPc, cPend, cBuf, cFin, uBuf, toUp, toCl, oEchoed, ready, readC,
                   readU, residual, tEnd, cntVars, outsideTunnel>>

\* _process_connection: initial_data = client_socket.recv(4096) returns what
\* has arrived, the header block and whatever follows it; the data starts
\* with CONNECT and goes to _handle_https_connection
TunnelRecv ==
    /\ tPc = "recv"
    /\ cBuf # <<>>
    /\ residual' = Tail(cBuf)
    /\ cBuf' = <<>>
    /\ tPc' = "establish"
    /\ UNCHANGED <<cPend, cFin, uBuf, uFin, toUp, toCl, oEchoed, ready, readC, readU,
                   tEnd, cntVars, outsideTunnel>>

\* _handle_https_connection (target, gates, route) and _establish_tunnel up
\* to the call of _tunnel_data: get_connection, then the 200 to the client.
\* initial_data is used for the parse and the SNI only; _establish_tunnel
\* gets the context and the upstream.
TunnelEstablish ==
    /\ tPc = "establish"
    /\ tPc' = "select"
    /\ UNCHANGED <<cPend, cBuf, cFin, uBuf, uFin, toUp, toCl, oEchoed, ready, readC,
                   readU, residual, tEnd, cntVars, outsideTunnel>>

Readable(buf, fin) == buf # <<>> \/ fin

\* _tunnel_data: select.select(sockets, [], [], 30) returns the sockets that
\* are readable, in the order [client_sock, upstream_sock]
TunnelSelect ==
    /\ tPc = "select"
    /\ Readable(cBuf, cFin) \/ Readable(uBuf, uFin)
    /\ ready' = (IF Readable(cBuf, cFin) THEN <<"client">> ELSE <<>>)
                \o (IF Readable(uBuf, uFin) THEN <<"upstream">> ELSE <<>>)
    /\ tPc' = "loop"
    /\ UNCHANGED <<cPend, cBuf, cFin, uBuf, uFin, toUp, toCl, oEchoed, readC, readU,
                   residual, tEnd, cntVars, outsideTunnel>>

\* a select without its timeout: with nothing readable it keeps waiting
TunnelIdleTimeout_NoTimeout ==
    /\ tPc = "select"
    /\ ~Readable(cBuf, cFin)
    /\ ~Readable(uBuf, uFin)
    /\ UNCHANGED vars

\* _tunnel_data: the select times out after 30 s with nothing readable:
\* "if not read_ready: break"
TunnelIdleTimeout ==
    /\ tPc = "select"
    /\ ~Readable(cBuf, cFin)
    /\ ~Readable(uBuf, uFin)
    /\ tEnd' = "idle"
    /\ tPc' = "done"
    /\ UNCHANGED <<cPend, cBuf, cFin, uBuf, uFin, toUp, toCl, oEchoed, ready, readC,
                   readU, residual, cntVars, outsideTunnel>>

\* the relay logs and zeroes its counters after a turn of the while loop
\* that leaves their sum above this many bytes
LogEvery == 1024 * 1024

\* what a relay step does with the data it read: other.send(data) accepts
\* the first n bytes and returns n; the return value is not used
Forwarded(data, n) == SubSeq(data, 1, n)

\* _tunnel_data, one turn of "for sock in read_ready": data = sock.recv(65536);
\* an empty read returns from the relay; otherwise the data goes to the
\* other socket with one send() and the counter of the direction is raised
\* by len(data); after the last socket of the turn the counters are zeroed
\* when their sum has passed LogEvery
TunnelServe(n) ==
    /\ tPc = "loop"
    /\ ready # <<>>
    /\ LET sock == Head(ready)
           data == IF sock = "client" THEN cBuf ELSE uBuf
           more == IF Len(ready) > 1 THEN "loop" ELSE "select"
       IN IF data = <<>>
          THEN /\ n = 0
               /\ tEnd' = IF sock = "client" THEN "client_eof" ELSE "upstream_eof"
               /\ tPc' = "done"
               /\ UNCHANGED <<cBuf, uBuf, toUp, toCl, readC, readU, ready>>
          ELSE /\ n \in 1..Len(data)
               /\ IF sock = "client"
                  THEN /\ cBuf' = <<>>
                       /\ readC' = readC \o data
                       /\ toUp' = toUp \o Forwarded(data, n)
                       /\ UNCHANGED <<uBuf, readU, toCl>>
                  ELSE /\ uBuf' = <<>>
                       /\ readU' = readU \o data
                       /\ toCl' = toCl \o Forwarded(data, n)
                       /\ UNCHANGED <<cBuf, readC, toUp>>
               /\ ready' = Tail(ready)
               /\ tPc' = more
               /\ UNCHANGED tEnd
    /\ LET sock == Head(ready)
           data == IF sock = "client" THEN cBuf ELSE uBuf
           up == IF sock = "client" THEN bytes_up + Len(data) ELSE bytes_up
           down == IF sock = "client" THEN bytes_down ELSE bytes_down + Len(data)
           reset == data # <<>> /\ Len(ready) = 1 /\ up + down > LogEvery
       IN  /\ bytes_up' = IF reset THEN 0 ELSE up
           /\ bytes_down' = IF reset THEN 0 ELSE down
    /\ UNCHANGED <<cPend, cFin, uFin, oEchoed, residual, outsideTunnel>>

\* _tunnel_data: recv or send raises (a reset, a timeout of the socket):
\* the except logs it and breaks
TunnelError ==
    /\ tPc = "loop"
    /\ ready # <<>>
    /\ tEnd' = "error"
    /\ tPc' = "done"
    /\ UNCHANGED <<cPend, cBuf, cFin, uBuf, uFin, toUp, toCl, oEchoed, ready, readC,
                   readU, residual, cntVars, outsideTunnel>>

NextTunnel ==
    \/ ClientSends
    \/ ClientCloses
    \/ OriginEchoes
    \/ OriginCloses
    \/ TunnelRecv
    \/ TunnelEstablish
    \/ TunnelSelect
    \/ TunnelIdleTimeout
    \/ \E n \in 0..(MaxPayload + 1) : TunnelServe(n)
    \/ TunnelError

SpecTunnel == InitTunnel /\ [][NextTunnel]_vars

Min(a, b) == IF a < b THEN a ELSE b

\* C5: bytes that arrive in the first read after the request's CRLF CRLF
\* are sent to the upstream before any later client byte: whatever the
\* upstream has been sent begins with those residual bytes.
C5_ResidualFirst ==
    \A i \in 1..Min(Len(residual), Len(toUp)) : toUp[i] = residual[i]

\* C6: EOF from one side stops only that direction: when the relay has
\* returned because one side reached EOF, the other direction has reached
\* EOF too and none of its bytes is left unread.
C6_EofStopsOneDirection ==
    /\ tEnd = "client_eof" => (uFin /\ uBuf = <<>>)
    /\ tEnd = "upstream_eof" => (cFin /\ cBuf = <<>>)

\* C7: every byte the relay reads from one socket is written to the other
\* exactly once and in arrival order, also when send accepts only part of
\* the data.
C7_ExactlyOnceInOrder ==
    /\ toUp = readC
    /\ toCl = readU

(***************************************************************************)
(* SpecSrv: one run of handle_https, in the variant of the class           *)
(* AnonyNetProxyServer and in the variant of Dump/proxy_main, against      *)
(* peers that send, close, reset or send urgent data when they like.  The  *)
(* handler's thread is scheduled fairly; the peers owe nothing.            *)
(***************************************************************************)
InitSrv ==
    /\ NPCIdle
    /\ CntIdle
    /\ ReqIdle
    /\ StopIdle
    /\ BurstIdle
    /\ NPIdle
    /\ PoolIdle
    /\ EntIdle
    /\ PUIdle
    /\ RLIdle
    /\ TunIdle
    /\ clock = 0
    /\ requests = [ip \in IPs |-> <<>>]
    /\ permitted = FilledHistory(0)
    /\ sVariant \in {"class", "dump"}
    /\ sPc = "connect"
    /\ sReady = <<>>
    /\ sPending = [x \in Sides |-> FALSE]
    /\ sArrivals = [x \in Sides |-> 0]
    /\ sEof = [x \in Sides |-> FALSE]
    /\ sRst = [x \in Sides |-> FALSE]
    /\ sOob = FALSE
    /\ sHit = FALSE
    /\ sClosed = [x \in Sides |-> 0]

Other(x) == IF x = "client" THEN "proxy" ELSE "client"

\* select reports a socket readable when data waits, at EOF and after a reset
SrvReadable(x) == sPending[x] \/ sEof[x] \/ sRst[x]

PeerSends(x) ==
    /\ sPc \in {"select", "loop"}
    /\ ~sEof[x]
    /\ ~sRst[x]
    /\ sArrivals[x] < MaxChunks
    /\ sArrivals' = [sArrivals EXCEPT ![x] = @ + 1]
    /\ sPending' = [sPending EXCEPT ![x] = TRUE]
    /\ UNCHANGED <<sVariant, sPc, sReady, sEof, sRst, sOob, sHit, sClosed, outsideSrv>>

PeerCloses(x) ==
    /\ sPc \in {"select", "loop"}
    /\ ~sEof[x]
    /\ ~sRst[x]
    /\ sEof' = [sEof EXCEPT ![x] = TRUE]
    /\ UNCHANGED <<sVariant, sPc, sReady, sPending, sArrivals, sRst, sOob, sHit, sClosed,
                   outsideSrv>>

PeerResets(x) ==
    /\ sPc \in {"select", "loop"}
    /\ ~sEof[x]
    /\ ~sRst[x]
    /\ sRst' = [sRst EXCEPT ![x] = TRUE]
    /\ sPending' = [sPending EXCEPT ![x] = FALSE]
    /\ UNCHANGED <<sVariant, sPc, sReady, sArrivals, sEof, sOob, sHit, sClosed, outsideSrv>>

PeerSendsUrgent ==
    /\ sPc \in {"select", "loop"}
    /\ ~sOob
    /\ \E x \in Sides : ~sEof[x] /\ ~sRst[x]
    /\ sOob' = TRUE
    /\ UNCHANGED <<sVariant, sPc, sReady, sPending, sArrivals, sEof, sRst, sHit, sClosed,
                   outsideSrv>>

\* the finally block: proxy_socket.close() and client_socket.close()
SrvCloseBoth ==
    /\ sClosed' = [x \in Sides |-> sClosed[x] + 1]
    /\ sPc' = "closed"
    /\ sReady' = <<>>

\* proxy_socket.connect and the 200 to the client; a failure raises into
\* the outer except and the finally block
SrvConnect(ok) ==
    /\ sPc = "connect"
    /\ IF ok
       THEN /\ sPc' = "select"
            /\ UNCHANGED <<sReady, sHit, sClosed>>
       ELSE /\ sHit' = TRUE
            /\ SrvCloseBoth
    /\ UNCHANGED <<sVariant, sPending, sArrivals, sEof, sRst, sOob, outsideSrv>>

\* select.select(sockets, [], sockets[, 30]) returns with something to
\* report: "if error_sockets: break", else on to the for loop
SrvSelect ==
    /\ sPc = "select"
    /\ sOob \/ \E x \in Sides : SrvReadable(x)
    /\ IF sOob
       THEN SrvCloseBoth
       ELSE /\ sReady' = (IF SrvReadable("client") THEN <<"client">> ELSE <<>>)
                         \o (IF SrvReadable("proxy") THEN <<"proxy">> ELSE <<>>)
            /\ sPc' = "loop"
            /\ UNCHANGED sClosed
    /\ UNCHANGED <<sVariant, sPending, sArrivals, sEof, sRst, sOob, sHit, outsideSrv>>

\* the class variant's select has a 30 s timeout: "if not read_sockets:
\* break"; the dump variant's select has none and keeps waiting
SrvSelectTimeout ==
    /\ sPc = "select"
    /\ sVariant = "class"
    /\ ~sOob
    /\ \A x \in Sides : ~SrvReadable(x)
    /\ SrvCloseBoth
    /\ UNCHANGED <<sVariant, sPending, sArrivals, sEof, sRst, sOob, sHit, outsideSrv>>

\* where a break inside "for sock in read_sockets" leaves the handler: the
\* break ends the for loop, and the "while True" goes on to the next select
SrvBreakFor ==
    /\ sPc' = "select"
    /\ sReady' = <<>>
    /\ UNCHANGED sClosed

\* where a socket.error of recv or send leaves the handler: the class
\* variant catches it inside the for loop and breaks; in the dump variant
\* it reaches the outer except and the finally block
SrvSocketError ==
    IF sVariant = "class" THEN SrvBreakFor ELSE SrvCloseBoth

\* one turn of "for sock in read_sockets": data = sock.recv(...); data goes
\* to the other socket, an empty read breaks
SrvServe(sendOk) ==
    /\ sPc = "loop"
    /\ sReady # <<>>
    /\ LET sock == Head(sReady)
       IN IF sRst[sock]
          THEN \* recv raises ECONNRESET; the error is consumed, later reads see EOF
               /\ sendOk
               /\ sRst' = [sRst EXCEPT ![sock] = FALSE]
               /\ sEof' = [sEof EXCEPT ![sock] = TRUE]
               /\ sHit' = TRUE
               /\ SrvSocketError
               /\ UNCHANGED sPending
          ELSE IF sPending[sock]
          THEN /\ sPending' = [sPending EXCEPT ![sock] = FALSE]
               /\ IF sendOk
                  THEN /\ sReady' = Tail(sReady)
                       /\ sPc' = IF Len(sReady) > 1 THEN "loop" ELSE "select"
                       /\ UNCHANGED <<sHit, sClosed>>
                  ELSE \* send raises: the other peer is gone
                       /\ sEof[Other(sock)] \/ sRst[Other(sock)]
                       /\ sHit' = TRUE
                       /\ SrvSocketError
               /\ UNCHANGED <<sRst, sEof>>
          ELSE \* recv returns b"": break
               /\ sendOk
               /\ sHit' = TRUE
               /\ SrvBreakFor
               /\ UNCHANGED <<sPending, sRst, sEof>>
    /\ UNCHANGED <<sVariant, sArrivals, sOob, outsideSrv>>

SrvStep ==
    \/ \E ok \in BOOLEAN : SrvConnect(ok)
    \/ SrvSelect
    \/ SrvSelectTimeout
    \/ \E sendOk \in BOOLEAN : SrvServe(sendOk)

NextSrv ==
    \/ \E x \in Sides : PeerSends(x)
    \/ \E x \in Sides : PeerCloses(x)
    \/ \E x \in Sides : PeerResets(x)
    \/ PeerSendsUrgent
    \/ SrvStep

SpecSrv == InitSrv /\ [][NextSrv]_vars /\ WF_vars(SrvStep)

\* C8: once handle_https has read EOF from either side or has seen a socket
\* error, the relay loop eventually ends and both sockets are closed.
C8_RelayTerminates ==
    sHit ~> (sPc = "closed" /\ \A x \in Sides : sClosed[x] = 1)

(***************************************************************************)
(* SpecNP: new_proxy.handle_client serving one request, with the block     *)
(* list of is_domain_blocked.  A host name is the sequence of its labels   *)
(* (what split('.') gives); a trailing dot is a last label "".             *)
(***************************************************************************)
LowerLabels == {"doubleclick", "net", "t", "co", "example"}

ToUpper == [l \in LowerLabels \cup {""} |->
              CASE l = "doubleclick" -> "DOUBLECLICK"
                [] l = "net" -> "NET"
                [] l = "t" -> "T"
                [] l = "co" -> "CO"
                [] l = "example" -> "EXAMPLE"
                [] OTHER -> ""]

\* str.lower() of one label
LowerLabel(l) ==
    IF \E x \in LowerLabels : ToUpper[x] = l
    THEN CHOOSE x \in LowerLabels : ToUpper[x] = l
    ELSE l

\* str.upper() of one label
UpperLabel(l) == IF l \in DOMAIN ToUpper THEN ToUpper[l] ELSE l

LowerHost(h) == [i \in 1..Len(h) |-> LowerLabel(h[i])]
UpperHost(h) == [i \in 1..Len(h) |-> UpperLabel(h[i])]
\* h + "."
WithDot(h) == Append(h, "")

\* the block lists, each entry split at its dots (entries of every category)
ad_networks ==
    (<<"doubleclick", "net">> :> "Google AdSense/DoubleClick")
    @@ (<<"googleads", "g", "doubleclick", "net">> :> "Google AdSense/DoubleClick")
    @@ (<<"ad", "com">> :> "AOL Advertising")
analytics_trackers ==
    (<<"google-analytics", "com">> :> "Google Analytics")
    @@ (<<"heap", "io">> :> "Heap Analytics")
social_trackers ==
    (<<"t", "co">> :> "Twitter URL Shortener/Tracker")
    @@ (<<"disqus", "com">> :> "Disqus Comments (can include tracking)")
cdn_trackers ==
    (<<"s0", "2mdn", "net">> :> "DoubleClick CDN (often for ad assets)")
malicious_domains ==
    (<<"coin-hive", "com">> :> "In-browser Cryptominer")

\* a lookup that tries the whole domain only, no parent domain
Suffixes_WholeOnly(parts) ==
    {parts}

\* ".".join(parts[i:]) for i in range(len(parts))
Suffixes(parts) ==
    {SubSeq(parts, i, Len(parts)) : i \in 1..Len(parts)}

\* check_and_get_reason: the domain or a parent domain is a key of the list
Listed(domain, blocklist) == \E c \in Suffixes(domain) : c \in DOMAIN blocklist

PyBool(b) == [t |-> "bool", b |-> b]
\* a Python string, as the sequence of the pieces it is formatted from
PyStr(pieces) == [t |-> "str", s |-> pieces]

\* Python's truth value: a bool is itself, a string is true unless empty
Truthy(v) == IF v.t = "bool" THEN v.b ELSE v.s # <<>>

\* check_and_get_reason's reason: the entry of the first candidate listed,
\* the candidates going from the whole domain to its last label
ListedReason(domain, blocklist) ==
    LET first == CHOOSE i \in 1..Len(domain) :
                     /\ SubSeq(domain, i, Len(domain)) \in DOMAIN blocklist
                     /\ \A j \in 1..(i - 1) : SubSeq(domain, j, Len(domain)) \notin DOMAIN blocklist
    IN  blocklist[SubSeq(domain, first, Len(domain))]

\* is_domain_blocked(domain): the pair (blocked, reason)
is_domain_blocked(domain) ==
    LET d == LowerHost(domain)
    IN  IF Listed(d, ad_networks)
        THEN <<PyBool(TRUE), PyStr(<<"Ad Network: ", ListedReason(d, ad_networks)>>)>>
        ELSE IF Listed(d, analytics_trackers)
        THEN <<PyBool(TRUE), PyStr(<<"Analytics/Tracking: ", ListedReason(d, analytics_trackers)>>)>>
        ELSE IF Listed(d, social_trackers)
        THEN <<PyBool(TRUE), PyStr(<<"Social Media Tracker: ", ListedReason(d, social_trackers)>>)>>
        ELSE IF Listed(d, cdn_trackers)
        THEN <<PyBool(TRUE), PyStr(<<"CDN-based Tracker: ", ListedReason(d, cdn_trackers)>>)>>
        ELSE IF Listed(d, malicious_domains)
        THEN <<PyBool(TRUE), PyStr(<<"Malicious/Cryptominer: ", ListedReason(d, malicious_domains)>>)>>
        ELSE <<PyBool(FALSE), PyStr(<<"Not Blocked">>)>>

\* what the block list says of a host: the first element of the pair
Blocked(h) == is_domain_blocked(h)[1].b

\* host names of at most MaxLabels labels, as written, in upper case, and
\* with a trailing dot
NPBaseHosts == UNION {[1..n -> LowerLabels] : n \in 1..MaxLabels}
NPHosts == NPBaseHosts \cup {UpperHost(h) : h \in NPBaseHosts}
                       \cup {WithDot(h) : h \in NPBaseHosts}

\* the requests of SpecNP: CONNECT host:443, a proxied GET with its Host
\* header, GET / with a Host header, and a GET without Host header
NPRequests ==
    {[method |-> "CONNECT", path |-> "", host |-> h, port |-> 443] : h \in NPHosts}
    \cup {[method |-> "GET", path |-> p, host |-> h, port |-> 80] :
              p \in {"/", "/index.html"}, h \in NPHosts \cup {<<>>}}

\* the 403 both branches send
Forbidden403 ==
    [status |-> "HTTP/1.1 403 Forbidden",
     headers |-> {"Content-Type: text/plain", "Content-Length: 14"},
     body |-> "Blocked Domain"]
Established200 ==
    [status |-> "HTTP/1.1 200 Connection Established", headers |-> {}, body |-> ""]
Ok200 ==
    [status |-> "HTTP/1.1 200 OK",
     headers |-> {"Content-Type: text/plain", "Content-Length: 2"},
     body |-> "OK"]

InitNP ==
    /\ NPCIdle
    /\ CntIdle
    /\ ReqIdle
    /\ StopIdle
    /\ BurstIdle
    /\ PoolIdle
    /\ EntIdle
    /\ PUIdle
    /\ RLIdle
    /\ TunIdle
    /\ SrvIdle
    /\ clock = 0
    /\ requests = [ip \in IPs |-> <<>>]
    /\ permitted = FilledHistory(0)
    /\ npPc = "recv"
    /\ npReq \in NPRequests
    /\ npHost = <<>>
    /\ npReason = [t |-> "none"]
    /\ npIsBlocked = [t |-> "none"]
    /\ npSent = <<>>
    /\ npDialed = 0
    /\ npClosed = 0

\* request = client_socket.recv(BUFFER_SIZE): an empty read closes the socket
NP_Recv(empty) ==
    /\ npPc = "recv"
    /\ IF empty
       THEN /\ npClosed' = npClosed + 1
            /\ npPc' = "done"
       ELSE /\ npPc' = "parse"
            /\ UNCHANGED npClosed
    /\ UNCHANGED <<npReq, npHost, npReason, npIsBlocked, npSent, npDialed, outsideNP>>

\* the first line and the Host header: host of "CONNECT host:port", or of
\* "Host:"; GET / is answered 200 OK and a request without host is dropped
NP_Parse ==
    /\ npPc = "parse"
    /\ IF npReq.method = "CONNECT"
       THEN /\ npHost' = npReq.host
            /\ npPc' = "classify"
            /\ UNCHANGED <<npSent, npClosed>>
       ELSE IF npReq.method = "GET" /\ npReq.path = "/"
       THEN /\ npSent' = Append(npSent, Ok200)
            /\ npHost' = npReq.host
            /\ npPc' = "done"
            /\ UNCHANGED npClosed
       ELSE IF npReq.host = <<>>
       THEN /\ npClosed' = npClosed + 1
            /\ npHost' = npReq.host
            /\ npPc' = "done"
            /\ UNCHANGED npSent
       ELSE /\ npHost' = npReq.host
            /\ npPc' = "classify"
            /\ UNCHANGED <<npSent, npClosed>>
    /\ UNCHANGED <<npReq, npReason, npIsBlocked, npDialed, outsideNP>>

\* "reason, is_blocked = is_domain_blocked(host)": the first element of the
\* pair goes to reason, the second to is_blocked
NP_Classify ==
    /\ npPc = "classify"
    /\ npReason' = is_domain_blocked(npHost)[1]
    /\ npIsBlocked' = is_domain_blocked(npHost)[2]
    /\ npPc' = "respond"
    /\ UNCHANGED <<npReq, npHost, npSent, npDialed, npClosed, outsideNP>>

\* "if is_blocked:" 403 and close; else socket.create_connection, which
\* succeeds or raises: CONNECT answers 200 and starts the two forward
\* threads, or closes the client on the error; GET sends the request on,
\* or leaves through the outer except
NP_Respond(reachable) ==
    /\ npPc = "respond"
    /\ IF Truthy(npIsBlocked)
       THEN /\ reachable
            /\ npSent' = Append(npSent, Forbidden403)
            /\ npClosed' = npClosed + 1
            /\ npPc' = "done"
            /\ UNCHANGED npDialed
       ELSE /\ npDialed' = npDialed + 1
            /\ IF reachable
               THEN /\ npSent' = IF npReq.method = "CONNECT"
                                 THEN Append(npSent, Established200) ELSE npSent
                    /\ npPc' = "relay"
                    /\ UNCHANGED npClosed
               ELSE /\ npClosed' = IF npReq.method = "CONNECT" THEN npClosed + 1 ELSE npClosed
                    /\ npPc' = "done"
                    /\ UNCHANGED npSent
    /\ UNCHANGED <<npReq, npHost, npReason, npIsBlocked, outsideNP>>

NextNP ==
    \/ \E empty \in BOOLEAN : NP_Recv(empty)
    \/ NP_Parse
    \/ NP_Classify
    \/ \E reachable \in BOOLEAN : NP_Respond(reachable)

SpecNP == InitNP /\ [][NextNP]_vars

\* C11: a CONNECT to a reachable host that is_domain_blocked does not
\* classify as blocked is dialled and answered 200 Connection Established,
\* not 403: no such request ends answered 403 or without its dial.
C11_UnblockedConnectGets200 ==
    (npReq.method = "CONNECT" /\ npHost = npReq.host /\ ~Blocked(npReq.host)
        /\ npPc \in {"relay", "done"})
    => /\ \A i \in 1..Len(npSent) : npSent[i] # Forbidden403
       /\ (npPc = "relay" => npDialed = 1 /\ npSent = <<Established200>>)

\* C12: a request whose host is_domain_blocked has classified as blocked is
\* answered 403 Forbidden with Content-Length: 14, Connection: close and the
\* body "Blocked Domain", the client socket is closed and nothing is dialled.
C12_BlockedGets403 ==
    (npPc = "done" /\ npReason.t # "none" /\ Blocked(npHost))
    => /\ Len(npSent) = 1
       /\ npSent[1].status = "HTTP/1.1 403 Forbidden"
       /\ {"Content-Length: 14", "Connection: close"} \subseteq npSent[1].headers
       /\ npSent[1].body = "Blocked Domain"
       /\ npClosed = 1
       /\ npDialed = 0

\* C13: is_domain_blocked gives the same result for a host name, for the
\* name in upper case and for the name with a trailing dot.
C13_ClassifyNormalises ==
    npPc = "respond"
    => /\ is_domain_blocked(UpperHost(npHost)) = <<npReason, npIsBlocked>>
       /\ is_domain_blocked(WithDot(npHost)) = <<npReason, npIsBlocked>>

(***************************************************************************)
(* SpecBurst: one client address calls check_limit, from its threads, more *)
(* than Limit times within one window, the table being empty before.       *)
(***************************************************************************)
BurstClient == "10.0.0.1"
\* the handler threads of that client's connections
BurstThreads == 1..NBurstThreads

InitBurst ==
    /\ NPCIdle
    /\ CntIdle
    /\ ReqIdle
    /\ StopIdle
    /\ PoolIdle
    /\ EntIdle
    /\ PUIdle
    /\ TunIdle
    /\ SrvIdle
    /\ NPIdle
    /\ RLIdle
    /\ clock = 0
    /\ requests = [ip \in IPs |-> <<>>]
    /\ permitted = FilledHistory(0)
    /\ bResults = <<>>

\* check_limit, first statement: now = time.time(), outside the lock
Burst_ReadNow(t) ==
    /\ rlPc[t] = "idle"
    /\ rlCalls < Limit + 1
    /\ rlPc' = [rlPc EXCEPT ![t] = "lock"]
    /\ rlNow' = [rlNow EXCEPT ![t] = clock]
    /\ rlIp' = [rlIp EXCEPT ![t] = BurstClient]
    /\ rlCalls' = rlCalls + 1
    /\ UNCHANGED <<clock, requests, rlTicks, permitted, bResults, outsideBurst>>

\* check_limit, the with self.lock block and the return
Burst_Locked(t) ==
    /\ rlPc[t] = "lock"
    /\ LET r == CheckLimit(requests, rlIp[t], rlNow[t]) IN
          /\ requests' = r.reqs
          /\ bResults' = Append(bResults, r.ok)
    /\ rlPc' = [rlPc EXCEPT ![t] = "idle"]
    /\ UNCHANGED <<clock, rlNow, rlIp, rlCalls, rlTicks, permitted, outsideBurst>>

\* time passes, the burst staying within one window of its start
Burst_Tick ==
    /\ rlTicks < MaxTicks
    /\ clock + (Window \div 2) < Window
    /\ clock' = clock + (Window \div 2)
    /\ rlTicks' = rlTicks + 1
    /\ UNCHANGED <<requests, rlPc, rlNow, rlIp, rlCalls, permitted, bResults, outsideBurst>>

NextBurst ==
    \/ \E t \in BurstThreads : Burst_ReadNow(t)
    \/ \E t \in BurstThreads : Burst_Locked(t)
    \/ Burst_Tick

SpecBurst == InitBurst /\ [][NextBurst]_vars

\* C14: from an empty bucket, of the check_limit calls one client makes
\* within one minute the first Limit return True and the next returns False.
C14_HundredThenDenied ==
    \A i \in 1..Len(bResults) : bResults[i] = (i <= Limit)

C14_Witness ==
    /\ Len(bResults) = Limit + 1
    /\ ~bResults[Limit + 1]
    /\ clock > 0

(***************************************************************************)
(* SpecHttp: the bytes of one plain HTTP connection of the enterprise      *)
(* proxy that passes the gates and gets its upstream: _process_connection, *)
(* _handle_http_connection and _forward_http_request.  0 is the request's  *)
(* header block, the payload is its body; the origin echoes what it gets.  *)
(***************************************************************************)
\* _process_connection: initial_data = client_socket.recv(4096) returns what
\* has arrived; _parse_http_request keeps it all as request.raw_data
HttpRecv ==
    /\ tPc = "recv"
    /\ cBuf # <<>>
    /\ residual' = Tail(cBuf)
    /\ cBuf' = <<>>
    /\ tPc' = "send"
    /\ UNCHANGED <<cPend, cFin, uBuf, uFin, toUp, toCl, oEchoed, ready, readC, readU,
                   tEnd, cntVars, outsideTunnel>>

\* _forward_http_request: get_connection, then
\* upstream_sock.send(request.raw_data), which accepts the first n bytes
HttpSendRequest(n) ==
    /\ tPc = "send"
    /\ n \in 1..(1 + Len(residual))
    /\ toUp' = toUp \o Forwarded(<<0>> \o residual, n)
    /\ tPc' = "copy"
    /\ UNCHANGED <<cPend, cBuf, cFin, uBuf, uFin, toCl, oEchoed, ready, readC, readU,
                   residual, tEnd, cntVars, outsideTunnel>>

\* the origin closes its sending side after its response
HttpOriginCloses ==
    /\ tPc = "copy"
    /\ ~uFin
    /\ uFin' = TRUE
    /\ UNCHANGED <<tPc, cPend, cBuf, cFin, uBuf, toUp, toCl, oEchoed, ready, readC,
                   readU, residual, tEnd, cntVars, outsideTunnel>>

\* _forward_http_request, one turn of "while True": data =
\* upstream_sock.recv(65536); an empty read breaks, other data goes to the
\* client with one send()
HttpCopy(n) ==
    /\ tPc = "copy"
    /\ Readable(uBuf, uFin)
    /\ IF uBuf = <<>>
       THEN /\ n = 0
            /\ tEnd' = "upstream_eof"
            /\ tPc' = "done"
            /\ UNCHANGED <<uBuf, readU, toCl>>
       ELSE /\ n \in 1..Len(uBuf)
            /\ readU' = readU \o uBuf
            /\ toCl' = toCl \o Forwarded(uBuf, n)
            /\ uBuf' = <<>>
            /\ UNCHANGED <<tPc, tEnd>>
    /\ UNCHANGED <<cPend, cBuf, cFin, uFin, toUp, oEchoed, ready, readC, residual,
                   cntVars, outsideTunnel>>

\* _forward_http_request: send or recv raises (a reset, the 30 s timeout of
\* the upstream socket): the except logs it
HttpError ==
    /\ tPc \in {"send", "copy"}
    /\ tEnd' = "error"
    /\ tPc' = "done"
    /\ UNCHANGED <<cPend, cBuf, cFin, uBuf, uFin, toUp, toCl, oEchoed, ready, readC,
                   readU, residual, cntVars, outsideTunnel>>

NextHttp ==
    \/ ClientSends
    \/ ClientCloses
    \/ OriginEchoes
    \/ HttpOriginCloses
    \/ HttpRecv
    \/ \E n \in 1..(MaxPayload + 1) : HttpSendRequest(n)
    \/ \E n \in 0..(MaxPayload + 1) : HttpCopy(n)
    \/ HttpError

SpecHttp == InitTunnel /\ [][NextHttp]_vars

\* C19: in an HTTP forward that ends with the origin's EOF, every byte the
\* client has sent, those after the first read included, has been written
\* to the origin, and every byte the origin has sent has been written to
\* the client.
C19_HttpForwardComplete ==
    (tPc = "done" /\ tEnd = "upstream_eof")
        => /\ cBuf = <<>>
           /\ toUp = <<0>> \o residual
           /\ toCl = SubSeq(toUp, 1, oEchoed)

(***************************************************************************)
(* SpecStop: the enterprise proxy of Spec with its accept loop's test of   *)
(* self.running and with stop() called from another thread.                *)
(***************************************************************************)
\* _accept_loop: "while self.running:" lets the loop into its next turn
LoopTest ==
    /\ ~loopIn
    /\ running
    /\ accPc = "select"
    /\ loopIn' = TRUE
    /\ UNCHANGED <<running, stopPc, serverClosed, connsAtStop, outsideStop>>

\* _accept_loop: select reports the listening socket, sock.accept() gives a
\* connection and _handle_new_connection takes it; a closed listening
\* socket gives none
LoopAccept(c, ip) ==
    /\ loopIn
    /\ ~serverClosed
    /\ HandleNewConnection(c, ip)

\* _accept_loop: the turn ends (the select timed out, or the for loop is
\* through) and the loop goes back to its test
LoopEnd ==
    /\ loopIn
    /\ accPc = "select"
    /\ loopIn' = FALSE
    /\ UNCHANGED <<running, stopPc, serverClosed, connsAtStop, outsideStop>>

\* stop(), first statement: self.running = False
StopFlag ==
    /\ stopPc = "idle"
    /\ running' = FALSE
    /\ stopPc' = "flag"
    /\ UNCHANGED <<loopIn, serverClosed, connsAtStop, outsideStop>>

\* stop(), the rest: every listening socket is closed; the method returns
StopClose ==
    /\ stopPc = "flag"
    /\ serverClosed' = TRUE
    /\ connsAtStop' = nextConn - 1
    /\ stopPc' = "done"
    /\ UNCHANGED <<running, loopIn, outsideStop>>

NextStop ==
    \/ LoopTest
    \/ \E c \in Conns, ip \in {"10.0.0.1"} : LoopAccept(c, ip)
    \/ LoopEnd
    \/ StopFlag
    \/ StopClose
    \/ AddActive
    \/ \E c \in Conns, o \in {"empty", "timeout", "error", "connect", "http"}, h \in Hosts :
          ProcessConnection(c, o, h)
    \/ \E c \in Conns, ok \in BOOLEAN : GetConnection(c, ok)
    \/ \E c \in Conns, how \in {"send_failed", "client_eof", "upstream_eof",
                                "client_error", "upstream_error", "idle"} :
          EstablishTunnel(c, how)
    \/ \E c \in Conns, how \in {"upstream_eof", "client_error", "upstream_error"} :
          ForwardHttpRequest(c, how)
    \/ \E c \in Conns : ReturnConnection(c)
    \/ \E c \in Conns : Finally(c)

SpecStop == Init /\ [][NextStop]_vars

\* C20, the part a finite run decides: once stop() has returned no further
\* connection is accepted and every socket idle in the pool is closed.
C20_StopQuiesces ==
    stopPc = "done"
        => /\ nextConn - 1 = connsAtStop
           /\ \A s \in Socks : InPool(s) => s \in sockClosed

\* ---------------------------------------------------------------------
\* The responses the Enterprise proxy writes itself
\* ---------------------------------------------------------------------

\* the bytes _send_http_response formats: the status line followed at once
\* by the blank line; no header field and no body
HttpResponseText(status) ==
    [status_line |-> <<"HTTP/1.1", status>>, headers |-> {}, body |-> <<>>]

\* C21: every 403 and 429 the Enterprise proxy has sent through
\* _send_http_response carries a Content-Length header and the header
\* "Connection: close".
C21_GeneratedResponseHeaders ==
    \A c \in Conns :
        \A i \in 1..Len(sent[c]) :
            sent[c][i] \in {"403", "429"}
                => {"Content-Length", "Connection: close"}
                       \subseteq HttpResponseText(sent[c][i]).headers

(***************************************************************************)
(* Requests as bytes: the str and bytes operations the Enterprise parsers  *)
(* use, on sequences of byte values                                        *)
(***************************************************************************)

\* the ASCII encoding of the texts the model's clients send
Ascii(s) ==
    CASE s = "CONNECT" -> <<67, 79, 78, 78, 69, 67, 84>>
      [] s = "GET" -> <<71, 69, 84>>
      [] s = "HTTP/1.1" -> <<72, 84, 84, 80, 47, 49, 46, 49>>
      [] s = "Host" -> <<72, 111, 115, 116>>
      [] s = "example.test" -> <<101, 120, 97, 109, 112, 108, 101, 46, 116, 101, 115, 116>>
      [] s = "mail.google.com" -> <<109, 97, 105, 108, 46, 103, 111, 111, 103, 108, 101, 46, 99, 111, 109>>
      [] s = "google.com" -> <<103, 111, 111, 103, 108, 101, 46, 99, 111, 109>>
      [] s = "8443" -> <<56, 52, 52, 51>>
      [] s = "8080" -> <<56, 48, 56, 48>>
      [] s = "http://" -> <<104, 116, 116, 112, 58, 47, 47>>
      [] s = "/" -> <<47>>
      [] s = "/health" -> <<47, 104, 101, 97, 108, 116, 104>>
      [] s = "/stats" -> <<47, 115, 116, 97, 116, 115>>
      [] s = "/other" -> <<47, 111, 116, 104, 101, 114>>
      [] s = "?next=" -> <<63, 110, 101, 120, 116, 61>>
      [] s = "X-From" -> <<88, 45, 70, 114, 111, 109>>
      [] s = "POST" -> <<80, 79, 83, 84>>
      [] s = "HEAD" -> <<72, 69, 65, 68>>
      [] s = "host" -> <<104, 111, 115, 116>>
      [] s = "google.com.example.test" -> <<103, 111, 111, 103, 108, 101, 46, 99, 111, 109, 46, 101, 120, 97, 109, 112, 108, 101, 46, 116, 101, 115, 116>>
      [] s = "://" -> <<58, 47, 47>>

\* Python's None, beside PyStr
PyNone == [t |-> "none", s |-> <<>>]

\* data[a:b]: a slice never raises, it is cut at the end of the data
Slice(data, a, b) ==
    IF a >= Len(data) \/ b <= a THEN <<>>
    ELSE SubSeq(data, a + 1, IF b < Len(data) THEN b ELSE Len(data))

\* s.find(pat) + 1: the 1-based place of the first occurrence, 0 for none
Find(s, pat) ==
    LET hits == {i \in 1..(Len(s) - Len(pat) + 1) : SubSeq(s, i, i + Len(pat) - 1) = pat}
    IN  IF hits = {} THEN 0 ELSE CHOOSE i \in hits : \A j \in hits : i <= j

\* s.split(sep)
RECURSIVE Split(_, _)
Split(s, sep) ==
    LET i == Find(s, sep) IN
    IF i = 0 THEN <<s>>
    ELSE <<SubSeq(s, 1, i - 1)>> \o Split(SubSeq(s, i + Len(sep), Len(s)), sep)

\* the characters str.split() and str.strip() take for white space
IsSpace(b) == b \in (9..13) \cup (28..32)

\* s.strip()
RECURSIVE Strip(_)
Strip(s) ==
    IF s = <<>> THEN s
    ELSE IF IsSpace(s[1]) THEN Strip(Tail(s))
    ELSE IF IsSpace(s[Len(s)]) THEN Strip(SubSeq(s, 1, Len(s) - 1))
    ELSE s

\* s.split(): the runs of characters that are not white space
RECURSIVE Words(_)
Words(s) ==
    IF s = <<>> THEN <<>>
    ELSE IF IsSpace(s[1]) THEN Words(Tail(s))
    ELSE LET stops == {i \in 1..Len(s) : IsSpace(s[i])}
             n == IF stops = {} THEN Len(s)
                  ELSE (CHOOSE i \in stops : \A j \in stops : i <= j) - 1
         IN  <<SubSeq(s, 1, n)>> \o Words(SubSeq(s, n + 1, Len(s)))

\* data.decode('utf-8', errors='ignore') on the bytes of the model's
\* requests: an ASCII byte is its character, a byte that starts no valid
\* sequence is dropped
Decode(data) == SelectSeq(data, LAMBDA b : b < 128)

\* struct.unpack('>H', data[pos:pos+2])[0]; -1 stands for the struct.error
\* a slice shorter than two bytes raises
U16(data, pos) ==
    IF pos + 2 <= Len(data) THEN data[pos + 1] * 256 + data[pos + 2] ELSE -1

(***************************************************************************)
(* _extract_sni and _parse_sni_extension                                   *)
(***************************************************************************)

\* the while loop of _parse_sni_extension from position pos; decode('ascii')
\* raises on a byte above 127 and the bare except turns that into None
RECURSIVE SniNameLoop(_, _)
SniNameLoop(data, pos) ==
    IF pos + 3 <= Len(data)
    THEN LET name_type == data[pos + 1]
             name_len == U16(data, pos + 1)
         IN  IF name_type = 0 /\ pos + 3 + name_len <= Len(data)
             THEN LET name == Slice(data, pos + 3, pos + 3 + name_len) IN
                  IF \A i \in 1..Len(name) : name[i] < 128 THEN PyStr(name) ELSE PyNone
             ELSE SniNameLoop(data, pos + 3 + name_len)
    ELSE PyNone

ParseSniExtension(data) ==
    IF Len(data) < 2 THEN PyNone ELSE SniNameLoop(data, 2)

\* the while loop over the extensions; an unpack of a slice cut short by
\* the end of the data raises, and the except of _extract_sni returns None
RECURSIVE SniExtensionLoop(_, _, _)
SniExtensionLoop(data, pos, end_pos) ==
    IF pos + 4 <= end_pos /\ pos < Len(data)
    THEN LET ext_type == U16(data, pos)
             ext_len == U16(data, pos + 2)
         IN  IF ext_type = -1 \/ ext_len = -1 THEN PyNone
             ELSE IF ext_type = 0
                  THEN ParseSniExtension(Slice(data, pos + 4, pos + 4 + ext_len))
                  ELSE SniExtensionLoop(data, pos + 4 + ext_len, end_pos)
    ELSE PyNone

\* _extract_sni: record header, handshake header, version and random, then
\* session id, cipher suites and compression methods, each skipped only
\* when its length field lies inside the data, then the extensions
ExtractSni(data) ==
    IF Len(data) < 5 \/ data[1] # 22 THEN PyNone
    ELSE IF Len(data) < 9 \/ data[6] # 1 THEN PyNone
    ELSE LET p0 == 5 + 4 + 34
             p1 == IF p0 < Len(data) THEN p0 + 1 + data[p0 + 1] ELSE p0
             p2 == IF p1 + 2 <= Len(data) THEN p1 + 2 + U16(data, p1) ELSE p1
             p3 == IF p2 < Len(data) THEN p2 + 1 + data[p2 + 1] ELSE p2
         IN  IF p3 + 2 <= Len(data)
             THEN SniExtensionLoop(data, p3 + 2, p3 + 2 + U16(data, p3))
             ELSE PyNone

\* a TLS ClientHello record as a client writes it for a host name: the
\* layout the offsets of _extract_sni walk over.  The layout says which
\* extensions the record carries: a server_name extension with one
\* host_name entry, another extension (ec_point_formats), or both.
SniHello(name, layout) ==
    LET U16Bytes(n) == <<n \div 256, n % 256>>
        entry == <<0>> \o U16Bytes(Len(name)) \o name
        sni == <<0, 0>> \o U16Bytes(Len(entry) + 2) \o U16Bytes(Len(entry)) \o entry
        other == <<0, 11, 0, 2, 1, 0>>
        exts == CASE layout = "sni" -> sni
                  [] layout = "sni+other" -> sni \o other
                  [] layout = "other+sni" -> other \o sni
                  [] layout = "other" -> other
        body == <<3, 3>> \o [i \in 1..32 |-> 0] \o <<0>> \o <<0, 2, 19, 1>>
                    \o <<1, 0>> \o U16Bytes(Len(exts)) \o exts
        handshake == <<1, 0>> \o U16Bytes(Len(body)) \o body
    IN  <<22, 3, 1>> \o U16Bytes(Len(handshake)) \o handshake

\* the byte strings given to _extract_sni: ClientHello records for a name,
\* whole, cut after `at` bytes, or with the length field at offset `at`
\* (record, handshake, session id, cipher suites, compression, extensions,
\* first extension, server_name list, host_name) raised by `by`
SniMetas ==
    LET names == {Ascii("example.test"), Ascii("mail.google.com")}
        layouts == {"sni", "sni+other", "other+sni", "other"}
        offsets(l) == {4, 8, 43, 45, 48, 51, 55}
                          \cup (IF l \in {"sni", "sni+other"} THEN {57, 60} ELSE {})
    IN  {[kind |-> "hello", name |-> n, layout |-> l, how |-> "whole", at |-> 0, by |-> 0] :
            n \in names, l \in layouts}
        \cup UNION {{[kind |-> "hello", name |-> n, layout |-> l, how |-> "cut", at |-> k, by |-> 0] :
                        k \in 0..(Len(SniHello(n, l)) - 1)} : n \in names, l \in layouts}
        \cup UNION {{[kind |-> "hello", name |-> n, layout |-> l, how |-> "length", at |-> k, by |-> d] :
                        k \in offsets(l), d \in {1, 100}} : n \in names, l \in layouts}
SniInput(m) ==
    LET hello == SniHello(m.name, m.layout) IN
    CASE m.how = "whole" -> hello
      [] m.how = "cut" -> SubSeq(hello, 1, m.at)
      [] m.how = "length" -> [hello EXCEPT ![m.at + 1] = @ + m.by]

InitSni ==
    /\ NPCIdle
    /\ CntIdle
    /\ StopIdle /\ BurstIdle /\ NPIdle /\ SrvIdle /\ PoolIdle /\ EntIdle
    /\ PUIdle /\ TunIdle /\ RLIdle
    /\ clock = 0
    /\ requests = [ip \in IPs |-> <<>>]
    /\ permitted = FilledHistory(0)
    /\ rqMeta \in SniMetas
    /\ rqData = SniInput(rqMeta)
    /\ rqPc = "parse"
    /\ rqProto = "none"
    /\ rqTarget = <<>>
    /\ rqSni = PyNone
    /\ rqDial = <<>>
    /\ rqSent = <<>>
    /\ rqClosed = 0

\* one call of _extract_sni on the bytes
Sni_Extract ==
    /\ rqPc = "parse"
    /\ rqSni' = ExtractSni(rqData)
    /\ rqPc' = "done"
    /\ UNCHANGED <<rqMeta, rqData, rqProto, rqTarget, rqDial, rqSent, rqClosed, rlVars, outsideReq>>

NextSni == Sni_Extract

SpecSni == InitSni /\ [][NextSni]_vars

\* C27: _extract_sni returns the host name for every well-formed
\* ClientHello record that carries a server_name extension with a
\* host_name entry, and None for every other byte string: a record cut
\* short, or one with a length field that does not fit the bytes.
C27_SniOrNone ==
    rqPc = "done" /\ rqMeta.kind = "hello"
        => rqSni = IF rqMeta.how = "whole" /\ rqMeta.layout # "other"
                   THEN PyStr(rqMeta.name)
                   ELSE PyNone

(***************************************************************************)
(* One request before the Enterprise handler: _process_connection,         *)
(* _handle_https_connection and _handle_http_connection on the bytes read  *)
(***************************************************************************)

\* the size of the handler's one recv
RecvCap == 4096

\* int(port_str) for a string of decimal digits; -1 stands for ValueError
RECURSIVE PyInt(_)
PyInt(s) ==
    IF s = <<>> \/ \E i \in 1..Len(s) : s[i] \notin 48..57 THEN -1
    ELSE IF Len(s) = 1 THEN s[1] - 48
    ELSE 10 * PyInt(SubSeq(s, 1, Len(s) - 1)) + (s[Len(s)] - 48)

\* _parse_connect_request: <<host, port>> from the second word of the first
\* line; ('', 443) when there is no second word or int() raises
ParseConnectRequest(data) ==
    LET parts == Words(Split(Decode(data), <<13, 10>>)[1]) IN
    IF Len(parts) >= 2
    THEN LET target == parts[2]
             colon == Find(target, <<58>>)
         IN  IF colon # 0
             THEN LET port == PyInt(SubSeq(target, colon + 1, Len(target))) IN
                  IF port = -1 THEN <<<<>>, 443>>
                  ELSE <<SubSeq(target, 1, colon - 1), port>>
             ELSE <<target, 443>>
    ELSE <<<<>>, 443>>

\* request.headers.get('Host', '').split(':')[0] on the headers
\* _parse_http_request collects: every line after the first that holds a
\* colon is a header, a later line replaces an earlier one of the same key
HttpTargetHost(data) ==
    LET lines == Split(Decode(data), <<13, 10>>)
        hosts == {i \in 2..Len(lines) :
                     /\ Find(lines[i], <<58>>) # 0
                     /\ Strip(SubSeq(lines[i], 1, Find(lines[i], <<58>>) - 1)) = Ascii("Host")}
    IN  IF hosts = {} THEN <<>>
        ELSE LET i == CHOOSE i \in hosts : \A j \in hosts : j <= i
                 value == Strip(SubSeq(lines[i], Find(lines[i], <<58>>) + 1, Len(lines[i])))
             IN  Split(value, <<58>>)[1]

\* routing_engine.route and the fallback: the SNI, or else the target host,
\* that contains 'google.com' goes to google.com:443, any other target to
\* the fallback upstream
RouteUpstream(sni, target_host, fallback) ==
    LET target == IF sni.s # <<>> THEN sni.s ELSE target_host IN
    IF target # <<>> /\ Find(target, Ascii("google.com")) # 0
    THEN <<Ascii("google.com"), 443>>
    ELSE fallback

\* what the clients send: a CONNECT or a GET for a host, with the port the
\* client asks for (0: none named), a first line of one, two or three
\* words, the GET target in origin or absolute form, the spelling of the
\* GET's Host header name, and for a CONNECT a TLS ClientHello for the host
\* right behind the header block or not
ReqMetas ==
    [kind : {"connect", "http"}, host : Hosts \cup {"google.com.example.test"},
     port : {0, 8443}, tokens : 1..3, absolute : BOOLEAN, header : {"Host", "host"},
     hello : BOOLEAN]

\* the bytes of such a request, as the client writes them
Wire(m) ==
    LET hostport == Ascii(m.host)
                        \o (IF m.port = 0 THEN <<>> ELSE <<58>> \o Ascii("8443"))
        target == CASE m.kind = "connect" -> hostport
                    [] m.absolute -> Ascii("http://") \o hostport \o Ascii("/")
                    [] OTHER -> Ascii("/")
        first == (IF m.kind = "connect" THEN Ascii("CONNECT") ELSE Ascii("GET"))
                     \o (IF m.tokens >= 2 THEN <<32>> \o target ELSE <<>>)
                     \o (IF m.tokens >= 3 THEN <<32>> \o Ascii("HTTP/1.1") ELSE <<>>)
        head == IF m.kind = "connect" THEN <<>>
                ELSE Ascii(m.header) \o <<58, 32>> \o hostport \o <<13, 10>>
        tls == IF m.kind = "connect" /\ m.hello
               THEN SniHello(Ascii(m.host), "sni") ELSE <<>>
    IN  first \o <<13, 10>> \o head \o <<13, 10>> \o tls

InitReq ==
    /\ NPCIdle
    /\ CntIdle
    /\ StopIdle /\ BurstIdle /\ NPIdle /\ SrvIdle /\ PoolIdle /\ EntIdle
    /\ PUIdle /\ TunIdle /\ RLIdle
    /\ clock = 0
    /\ \E n \in {0, Limit} :
          /\ requests = [ip \in IPs |-> IF ip = "10.0.0.1" THEN FilledBucket(n) ELSE <<>>]
          /\ permitted = FilledHistory(n)
    /\ rqMeta \in ReqMetas
    /\ rqData = <<>>
    /\ rqPc = "recv"
    /\ rqProto = "none"
    /\ rqTarget = <<>>
    /\ rqSni = PyNone
    /\ rqDial = <<>>
    /\ rqSent = <<>>
    /\ rqClosed = 0

\* _process_connection, initial_data = client_socket.recv(4096): the one
\* read returns the first k bytes of what the client sends, as many as have
\* arrived; k = 0 is the read that returns b"" or times out, and the
\* handler goes to its finally
Req_Recv(k) ==
    /\ rqPc = "recv"
    /\ k <= Len(Wire(rqMeta))
    /\ k <= RecvCap
    /\ rqData' = SubSeq(Wire(rqMeta), 1, k)
    /\ rqPc' = IF k = 0 THEN "finally" ELSE "dispatch"
    /\ UNCHANGED <<rqMeta, rqProto, rqTarget, rqSni, rqDial, rqSent, rqClosed,
                   rlVars, outsideReq>>

\* the dispatch on startswith(b"CONNECT") and the handler it calls, up to
\* its return: target, SNI, check_limit (check_access is always True),
\* routing, then get_connection on an empty pool, which dials the upstream;
\* a CONNECT whose dial succeeded is sent "200 Connection Established"
Req_Handle(dial_ok) ==
    /\ rqPc = "dispatch"
    /\ LET https == Slice(rqData, 0, 7) = Ascii("CONNECT")
           target == IF https THEN ParseConnectRequest(rqData)
                     ELSE <<HttpTargetHost(rqData), 80>>
           sni == IF https THEN ExtractSni(rqData) ELSE PyNone
           r == CheckLimit(requests, "10.0.0.1", clock)
       IN  /\ rqProto' = IF https THEN "https" ELSE "http"
           /\ rqTarget' = target
           /\ rqSni' = sni
           /\ requests' = r.reqs
           /\ IF r.ok
              THEN /\ rqDial' = Append(rqDial, RouteUpstream(sni, target[1], target))
                   /\ rqSent' = IF https /\ dial_ok THEN Append(rqSent, "200") ELSE rqSent
              ELSE /\ rqDial' = rqDial
                   /\ rqSent' = Append(rqSent, "429")
    /\ rqPc' = "finally"
    /\ UNCHANGED <<rqMeta, rqData, rqClosed, clock, rlPc, rlNow, rlIp, rlCalls,
                   rlTicks, permitted, outsideReq>>

\* the finally of _process_connection: the client socket is closed
Req_Finally ==
    /\ rqPc = "finally"
    /\ rqClosed' = rqClosed + 1
    /\ rqPc' = "done"
    /\ UNCHANGED <<rqMeta, rqData, rqProto, rqTarget, rqSni, rqDial, rqSent,
                   rlVars, outsideReq>>

\* the length of the longest request
ReqMaxLen ==
    CHOOSE n \in {Len(Wire(m)) : m \in ReqMetas} : \A m \in ReqMetas : Len(Wire(m)) <= n

NextReq ==
    \/ \E k \in 0..ReqMaxLen : Req_Recv(k)
    \/ \E ok \in BOOLEAN : Req_Handle(ok)
    \/ Req_Finally

SpecReq == InitReq /\ [][NextReq]_vars

\* C22: when the first line of the request does not have three words, the
\* handler sends no response, attempts no upstream dial, and closes the
\* client socket.
C22_MalformedDropped ==
    (rqPc = "done" /\ rqData = Wire(rqMeta) /\ rqMeta.tokens # 3)
        => (rqSent = <<>> /\ rqDial = <<>> /\ rqClosed = 1)

\* C26: a CONNECT whose first read holds, behind the header block, a TLS
\* ClientHello with server_name H has context.sni = H once the handler has
\* run.
C26_SniRecorded ==
    (rqProto = "https" /\ rqMeta.kind = "connect" /\ rqMeta.tokens = 3
         /\ rqMeta.hello /\ rqData = Wire(rqMeta))
        => rqSni = PyStr(Ascii(rqMeta.host))

\* C29: a request is classified only when the bytes read hold the header
\* terminator CRLF CRLF or fill the read buffer, and the target the handler
\* extracts is the target of the request the client sends.
C29_CompleteHeaderFirst ==
    rqProto # "none"
        => /\ Find(rqData, <<13, 10, 13, 10>>) # 0 \/ Len(rqData) >= RecvCap
           /\ rqProto = (IF rqMeta.kind = "connect" THEN "https" ELSE "http")
           /\ rqMeta.tokens = 3 =>
                  rqTarget[1] = Ascii(rqMeta.host)

\* C30: an HTTP request that names a port is dialled on that port of the
\* target host; port 80 is used only when the request names none.
C30_HttpExplicitPort ==
    (rqProto = "http" /\ rqMeta.kind = "http" /\ rqMeta.tokens = 3
         /\ rqData = Wire(rqMeta) /\ rqMeta.host = "example.test"
         /\ rqMeta.header = "Host" /\ rqDial # <<>>)
        => rqDial[1] = <<Ascii(rqMeta.host), IF rqMeta.port = 0 THEN 80 ELSE rqMeta.port>>

(***************************************************************************)
(* The admin endpoint: _handle_admin_request                               *)
(***************************************************************************)

\* the requests sent to the admin port: a GET for a path, with or without
\* a query string "?next=..." and a header "X-From: ..." that hold a text
AdminMetas ==
    [kind : {"admin"}, path : {"/health", "/stats", "/other"},
     query : {"", "/health", "/stats"}, header : {"", "/health", "/stats"}]

AdminWire(m) ==
    Ascii("GET") \o <<32>> \o Ascii(m.path)
        \o (IF m.query = "" THEN <<>> ELSE Ascii("?next=") \o Ascii(m.query))
        \o <<32>> \o Ascii("HTTP/1.1") \o <<13, 10>>
        \o (IF m.header = "" THEN <<>>
            ELSE Ascii("X-From") \o <<58, 32>> \o Ascii(m.header) \o <<13, 10>>)
        \o <<13, 10>>

\* the response _handle_admin_request chooses for the bytes it read: the
\* tests '/health' in request and '/stats' in request, in this order, on
\* the decoded text; a decode() that raises leaves the client unanswered
AdminResponse(data) ==
    IF \E i \in 1..Len(data) : data[i] >= 128 THEN <<>>
    ELSE IF Find(data, Ascii("/health")) # 0 THEN <<"200 OK health">>
    ELSE IF Find(data, Ascii("/stats")) # 0 THEN <<"200 OK stats">>
    ELSE <<"404 Not Found">>

InitAdmin ==
    /\ NPCIdle
    /\ CntIdle
    /\ StopIdle /\ BurstIdle /\ NPIdle /\ SrvIdle /\ PoolIdle /\ EntIdle
    /\ PUIdle /\ TunIdle /\ RLIdle
    /\ clock = 0
    /\ requests = [ip \in IPs |-> <<>>]
    /\ permitted = FilledHistory(0)
    /\ rqMeta \in AdminMetas
    /\ rqData = <<>>
    /\ rqPc = "recv"
    /\ rqProto = "none"
    /\ rqTarget = <<>>
    /\ rqSni = PyNone
    /\ rqDial = <<>>
    /\ rqSent = <<>>
    /\ rqClosed = 0

\* request = client.recv(4096): the first k bytes of the request
Admin_Recv(k) ==
    /\ rqPc = "recv"
    /\ k <= Len(AdminWire(rqMeta))
    /\ k <= RecvCap
    /\ rqData' = SubSeq(AdminWire(rqMeta), 1, k)
    /\ rqPc' = "respond"
    /\ UNCHANGED <<rqMeta, rqProto, rqTarget, rqSni, rqDial, rqSent, rqClosed,
                   rlVars, outsideReq>>

\* the choice of the response, client.send and, in the finally,
\* client.close()
Admin_Respond ==
    /\ rqPc = "respond"
    /\ rqSent' = rqSent \o AdminResponse(rqData)
    /\ rqClosed' = rqClosed + 1
    /\ rqPc' = "done"
    /\ UNCHANGED <<rqMeta, rqData, rqProto, rqTarget, rqSni, rqDial, rlVars, outsideReq>>

\* the length of the longest request
AdminMaxLen ==
    CHOOSE n \in {Len(AdminWire(m)) : m \in AdminMetas} : \A m \in AdminMetas : Len(AdminWire(m)) <= n

NextAdmin ==
    \/ \E k \in 0..AdminMaxLen : Admin_Recv(k)
    \/ Admin_Respond

SpecAdmin == InitAdmin /\ [][NextAdmin]_vars

\* C23: the admin endpoint answers 200 only to requests whose path is
\* /health or /stats; a request for any other path is answered 404,
\* whatever its query string and headers hold.
C23_AdminPathOnly ==
    (rqPc = "done" /\ rqMeta.path \notin {"/health", "/stats"})
        => rqSent = <<"404 Not Found">>

(***************************************************************************)
(* check_limit after a quiet window                                        *)
(***************************************************************************)

\* one client whose bucket is full, or one short of full, of stamps of
\* second 0; bResults logs every call in the order of the lock: its
\* result, the time it read and the time it left the lock
InitQuiet ==
    /\ NPCIdle
    /\ CntIdle
    /\ StopIdle /\ PoolIdle /\ EntIdle /\ PUIdle /\ TunIdle /\ SrvIdle
    /\ NPIdle /\ ReqIdle /\ RLIdle
    /\ clock = 0
    /\ \E n \in {Limit - 1, Limit} :
          /\ requests = [ip \in IPs |-> IF ip = BurstClient THEN FilledBucket(n) ELSE <<>>]
          /\ permitted = FilledHistory(n)
    /\ bResults = <<>>

\* check_limit, first statement: now = time.time(), outside the lock
Quiet_ReadNow(t) ==
    /\ rlPc[t] = "idle"
    /\ rlCalls < MaxCalls
    /\ rlPc' = [rlPc EXCEPT ![t] = "lock"]
    /\ rlNow' = [rlNow EXCEPT ![t] = clock]
    /\ rlIp' = [rlIp EXCEPT ![t] = BurstClient]
    /\ rlCalls' = rlCalls + 1
    /\ UNCHANGED <<clock, requests, rlTicks, permitted, bResults, outsideBurst>>

\* check_limit, the with self.lock block and the return
Quiet_Locked(t) ==
    /\ rlPc[t] = "lock"
    /\ LET r == CheckLimit(requests, rlIp[t], rlNow[t]) IN
          /\ requests' = r.reqs
          /\ bResults' = Append(bResults, [ok |-> r.ok, read |-> rlNow[t], left |-> clock])
    /\ rlPc' = [rlPc EXCEPT ![t] = "idle"]
    /\ UNCHANGED <<clock, rlNow, rlIp, rlCalls, rlTicks, permitted, outsideBurst>>

\* half a window passes
Quiet_Tick ==
    /\ rlTicks < MaxTicks
    /\ clock' = clock + (Window \div 2)
    /\ rlTicks' = rlTicks + 1
    /\ UNCHANGED <<requests, rlPc, rlNow, rlIp, rlCalls, permitted, bResults, outsideBurst>>

NextQuiet ==
    \/ \E t \in Threads : Quiet_ReadNow(t)
    \/ \E t \in Threads : Quiet_Locked(t)
    \/ Quiet_Tick

SpecQuiet == InitQuiet /\ [][NextQuiet]_vars

\* call i came after a denial and after a quiet window: an earlier call
\* was denied, and every earlier call, those of second 0 that filled the
\* bucket included, had left check_limit 60 seconds or more before call i
\* began
AfterQuietWindow(i) ==
    /\ \E j \in 1..(i - 1) : ~bResults[j].ok
    /\ \A j \in 1..(i - 1) : bResults[i].read - bResults[j].left >= Window
    /\ bResults[i].read >= Window

\* C24: after a client has been denied, once 60 seconds pass with no
\* check_limit call for it, its next check_limit call returns True.
C24_QuietWindowReadmits ==
    \A i \in 1..Len(bResults) : AfterQuietWindow(i) => bResults[i].ok

\* C24 witness: a call made 60 seconds after the denial returned True.
C24_Witness ==
    \E i \in 1..Len(bResults) : AfterQuietWindow(i) /\ bResults[i].ok

(***************************************************************************)
(* _tunnel_data: its counters and its idle timeout                         *)
(***************************************************************************)

\* C25: in the relay, bytes_up and bytes_down equal at every moment the
\* number of bytes written to the upstream and to the client since the
\* tunnel began.
C25_CountersAreBytesWritten ==
    /\ bytes_up = Len(toUp)
    /\ bytes_down = Len(toCl)

\* the steps of the relay thread: select returns, with sockets or after its
\* 30 seconds, and the for loop serves a socket
TunnelStep ==
    \/ TunnelSelect
    \/ TunnelIdleTimeout
    \/ \E n \in 0..(MaxPayload + 1) : TunnelServe(n)

\* the tunnel with a relay thread that keeps running
SpecTunnelLive == InitTunnel /\ [][NextTunnel]_vars /\ WF_vars(TunnelStep)

\* C28: a tunnel waiting in select with nothing to read on either socket
\* terminates, unless bytes (or an end of stream) arrive first: the relay
\* returns and the handler goes on to its cleanup.
C28_IdleTunnelTerminates ==
    (tPc = "select" /\ ~Readable(cBuf, cFin) /\ ~Readable(uBuf, uFin))
        ~> (tPc = "done" \/ Readable(cBuf, cFin) \/ Readable(uBuf, uFin))

\* C28 witness: a relay ended by the idle timeout, after it had forwarded
\* bytes in both directions.
C28_Witness ==
    tPc = "done" /\ tEnd = "idle" /\ toUp # <<>> /\ toCl # <<>>

(***************************************************************************)
(* AnonyNetProxyServer.handle_client: the target of a request              *)
(***************************************************************************)

\* handle_client from the first line to the dispatch: the web server and
\* the port it gives handle_https or handle_http; ok is FALSE when an
\* index or int() raises and the except closes the client socket
HandleClientTarget(request) ==
    LET first_line == Split(request, <<10>>)[1]
        words == Split(first_line, <<32>>)
        url == words[2]
        http_pos == Find(url, Ascii("://"))
        temp == IF http_pos = 0 THEN url ELSE SubSeq(url, http_pos + 3, Len(url))
        port_pos == Find(temp, <<58>>)
        slash == Find(temp, Ascii("/"))
        webserver_pos == IF slash = 0 THEN Len(temp) + 1 ELSE slash
        https == Slice(first_line, 0, 7) = Ascii("CONNECT")
        get_http == Slice(first_line, 0, 8) = Ascii("GET") \o <<32, 104, 116, 116, 112>>
        port == PyInt(Strip(SubSeq(temp, port_pos + 1, webserver_pos - 1)))
    IN  IF Len(words) < 2 THEN [ok |-> FALSE, https |-> https, target |-> <<>>]
        ELSE IF port_pos = 0 \/ webserver_pos < port_pos
        THEN [ok |-> TRUE, https |-> https,
              target |-> <<SubSeq(temp, 1, webserver_pos - 1), IF get_http THEN 80 ELSE 443>>]
        ELSE IF port = -1 THEN [ok |-> FALSE, https |-> https, target |-> <<>>]
        ELSE [ok |-> TRUE, https |-> https, target |-> <<SubSeq(temp, 1, port_pos - 1), port>>]

\* the requests sent to the server: a method, a host, the port the client
\* names (0: none); CONNECT in authority form, the others in absolute form
HCMetas ==
    [kind : {"handle_client"}, method : {"GET", "POST", "HEAD", "CONNECT"},
     host : Hosts, port : {0, 8443}]

HCWire(m) ==
    LET hostport == Ascii(m.host)
                        \o (IF m.port = 0 THEN <<>> ELSE <<58>> \o Ascii("8443"))
    IN  Ascii(m.method) \o <<32>>
            \o (IF m.method = "CONNECT" THEN hostport
                ELSE Ascii("http://") \o hostport \o Ascii("/"))
            \o <<32>> \o Ascii("HTTP/1.1") \o <<13, 10, 13, 10>>

InitHC ==
    /\ NPCIdle
    /\ StopIdle /\ BurstIdle /\ NPIdle /\ SrvIdle /\ PoolIdle /\ EntIdle
    /\ PUIdle /\ TunIdle /\ RLIdle /\ CntIdle
    /\ clock = 0
    /\ requests = [ip \in IPs |-> <<>>]
    /\ permitted = FilledHistory(0)
    /\ rqMeta \in HCMetas
    /\ rqData = <<>>
    /\ rqPc = "recv"
    /\ rqProto = "none"
    /\ rqTarget = <<>>
    /\ rqSni = PyNone
    /\ rqDial = <<>>
    /\ rqSent = <<>>
    /\ rqClosed = 0

\* request = client_socket.recv(self.buffer_size): the first k bytes of the
\* request; an empty read closes the client socket and returns
HC_Recv(k) ==
    /\ rqPc = "recv"
    /\ k <= Len(HCWire(rqMeta))
    /\ rqData' = SubSeq(HCWire(rqMeta), 1, k)
    /\ rqPc' = IF k = 0 THEN "done" ELSE "dispatch"
    /\ rqClosed' = IF k = 0 THEN rqClosed + 1 ELSE rqClosed
    /\ UNCHANGED <<rqMeta, rqProto, rqTarget, rqSni, rqDial, rqSent, rlVars, outsideReq>>

\* the parse and the call of handle_https or handle_http, which connects
\* to (webserver, port); an exception of the parse closes the client socket
HC_Handle ==
    /\ rqPc = "dispatch"
    /\ LET t == HandleClientTarget(rqData) IN
          IF t.ok
          THEN /\ rqProto' = IF t.https THEN "https" ELSE "http"
               /\ rqTarget' = t.target
               /\ rqDial' = Append(rqDial, t.target)
               /\ UNCHANGED rqClosed
          ELSE /\ rqClosed' = rqClosed + 1
               /\ UNCHANGED <<rqProto, rqTarget, rqDial>>
    /\ rqPc' = "done"
    /\ UNCHANGED <<rqMeta, rqData, rqSni, rqSent, rlVars, outsideReq>>

\* the length of the longest request
HCMaxLen ==
    CHOOSE n \in {Len(HCWire(m)) : m \in HCMetas} : \A m \in HCMetas : Len(HCWire(m)) <= n

NextHC ==
    \/ \E k \in 0..HCMaxLen : HC_Recv(k)
    \/ HC_Handle

SpecHC == InitHC /\ [][NextHC]_vars

\* C31: in handle_client an absolute-form http:// target without a port
\* resolves to port 80 for every method, and a CONNECT target without a
\* port to port 443.
C31_DefaultPorts ==
    (rqPc = "done" /\ rqMeta.kind = "handle_client" /\ rqMeta.port = 0
         /\ rqData = HCWire(rqMeta))
        => rqDial = <<<<Ascii(rqMeta.host), IF rqMeta.method = "CONNECT" THEN 443 ELSE 80>>>>

\* C32: the target of an HTTP request does not depend on the letter case
\* of its Host header name: the handler's target host is the one it
\* derives from the same request with the header spelled "Host".
C32_HostHeaderAnyCase ==
    (rqProto = "http" /\ rqMeta.kind = "http" /\ rqData = Wire(rqMeta))
        => rqTarget[1] = HttpTargetHost(Wire([rqMeta EXCEPT !.header = "Host"]))

\* C33: a CONNECT is routed to the rule's upstream only when its target
\* host (no SNI having been extracted) ends with the rule's domain; every
\* other host is dialled directly, on the host and port of the request.
C33_RouteBySuffix ==
    (rqProto = "https" /\ rqMeta.kind = "connect" /\ rqMeta.tokens = 3
         /\ rqData = Wire(rqMeta) /\ rqSni = PyNone /\ rqDial # <<>>)
        => LET host == Ascii(rqMeta.host)
               rule == Ascii("google.com")
               suffix == Len(host) >= Len(rule)
                             /\ SubSeq(host, Len(host) - Len(rule) + 1, Len(host)) = rule
           IN  rqDial[1] = IF suffix THEN <<rule, 443>>
                           ELSE <<host, IF rqMeta.port = 0 THEN 443 ELSE rqMeta.port>>

\* C34: in the tunnel path the client is sent 200 Connection Established
\* only after the upstream connection has been acquired; a connection
\* whose acquisition failed is never sent a 200.
C34_200AfterUpstream ==
    \A c \in Conns :
        /\ (\E i \in 1..Len(sent[c]) : sent[c][i] = "200") => upstream_sock[c] # NoSock
        /\ ended[c] = "dial_failed" => \A i \in 1..Len(sent[c]) : sent[c][i] # "200"

\* C34 witness: a CONNECT whose dial failed has run to its end without a
\* 200, and another one was sent its 200 with its upstream in hand.
C34_Witness ==
    /\ \E c \in Conns :
          /\ proto[c] = "https" /\ ended[c] = "dial_failed" /\ hpc[c] = "done"
          /\ sent[c] = <<>>
    /\ \E c \in Conns : sent[c] = <<"200">> /\ upstream_sock[c] # NoSock

(***************************************************************************)
(* new_proxy: the global counters under concurrent handler threads         *)
(***************************************************************************)

\* the accept loop has started no handler yet.  No forward thread appears:
\* handle_client answers every proxied request 403 and starts none.
InitNPC ==
    /\ StopIdle /\ BurstIdle /\ NPIdle /\ SrvIdle /\ PoolIdle /\ EntIdle
    /\ PUIdle /\ TunIdle /\ RLIdle /\ CntIdle /\ ReqIdle
    /\ clock = 0
    /\ requests = [ip \in IPs |-> <<>>]
    /\ permitted = FilledHistory(0)
    /\ total_connections = 0
    /\ np_active_connections = 0
    /\ hPc = [t \in Threads |-> "idle"]
    /\ hReg = [t \in Threads |-> 0]

\* threading.Thread(target=handle_client, ...).start()
NPC_Start(t) ==
    /\ hPc[t] = "idle"
    /\ hPc' = [hPc EXCEPT ![t] = "load_active"]
    /\ UNCHANGED <<total_connections, np_active_connections, hReg, outsideNPC>>

\* the first half of "x += 1" or "x -= 1" on a global: the thread loads
\* the value of x; another thread may run before the store
NPC_Load(t) ==
    /\ hPc[t] \in {"load_active", "load_total", "load_finally"}
    /\ hReg' = [hReg EXCEPT ![t] = IF hPc[t] = "load_total" THEN total_connections
                                   ELSE np_active_connections]
    /\ hPc' = [hPc EXCEPT ![t] = CASE hPc[t] = "load_active" -> "store_active"
                                   [] hPc[t] = "load_total" -> "store_total"
                                   [] hPc[t] = "load_finally" -> "store_finally"]
    /\ UNCHANGED <<total_connections, np_active_connections, outsideNPC>>

\* the second half: the thread stores the loaded value plus or minus one
NPC_Store(t) ==
    /\ hPc[t] \in {"store_active", "store_total", "store_finally"}
    /\ total_connections' = IF hPc[t] = "store_total" THEN hReg[t] + 1
                            ELSE total_connections
    /\ np_active_connections' = CASE hPc[t] = "store_active" -> hReg[t] + 1
                                  [] hPc[t] = "store_finally" -> hReg[t] - 1
                                  [] OTHER -> np_active_connections
    /\ hPc' = [hPc EXCEPT ![t] = CASE hPc[t] = "store_active" -> "load_total"
                                   [] hPc[t] = "store_total" -> "body"
                                   [] hPc[t] = "store_finally" -> "done"]
    /\ UNCHANGED <<hReg, outsideNPC>>

\* the try block of handle_client, from the recv to its return
NPC_Body(t) ==
    /\ hPc[t] = "body"
    /\ hPc' = [hPc EXCEPT ![t] = "load_finally"]
    /\ UNCHANGED <<total_connections, np_active_connections, hReg, outsideNPC>>

NextNPC ==
    \/ \E t \in Threads : NPC_Start(t)
    \/ \E t \in Threads : NPC_Load(t)
    \/ \E t \in Threads : NPC_Store(t)
    \/ \E t \in Threads : NPC_Body(t)

SpecNPC == InitNPC /\ [][NextNPC]_vars

\* C35: no counter update is lost: once the handlers that were started
\* have all counted themselves, total_connections is their number (the
\* traffic counters stay 0, no forward thread being started).
C35_NoLostUpdate ==
    (\A t \in Threads : hPc[t] \notin {"load_active", "store_active", "load_total", "store_total"})
        => total_connections = Cardinality({t \in Threads : hPc[t] # "idle"})

(***************************************************************************)
(* new_proxy: closing the client socket; the block list's match            *)
(***************************************************************************)

\* C36: a handler that ends without starting a relay has closed the client
\* socket exactly once (with a relay, each of the two sockets is closed
\* exactly once).
C36_HandlerClosesOnce ==
    npPc = "done" => npClosed = 1

\* C38: is_domain_blocked reports a host name blocked exactly when the name
\* (in lower case) equals an entry of a block list or ends with "." and an
\* entry, and the reason names the first of ads, analytics, social, cdn,
\* malicious that has such an entry.
C38_LabelSuffixMatch ==
    npPc = "respond" =>
        LET h == LowerHost(npHost)
            EndsWith(e) == /\ Len(e) <= Len(h)
                           /\ \A i \in 1..Len(e) : h[Len(h) - Len(e) + i] = e[i]
            categories == << [name |-> "Ad Network: ", entries |-> DOMAIN ad_networks],
                             [name |-> "Analytics/Tracking: ", entries |-> DOMAIN analytics_trackers],
                             [name |-> "Social Media Tracker: ", entries |-> DOMAIN social_trackers],
                             [name |-> "CDN-based Tracker: ", entries |-> DOMAIN cdn_trackers],
                             [name |-> "Malicious/Cryptominer: ", entries |-> DOMAIN malicious_domains] >>
            matching == {i \in 1..5 : \E e \in categories[i].entries : EndsWith(e)}
        IN  IF matching = {}
            THEN npReason = PyBool(FALSE)
            ELSE /\ npReason = PyBool(TRUE)
                 /\ npIsBlocked.s[1] = categories[CHOOSE i \in matching : \A j \in matching : i <= j].name

\* C38 witness: a subdomain of a listed domain has been classified blocked.
C38_Witness ==
    /\ npPc = "respond"
    /\ Len(npHost) = 3
    /\ LowerHost(npHost) \notin DOMAIN ad_networks
    /\ npReason = PyBool(TRUE)

(***************************************************************************)
(* RateLimiter: what a denied call leaves in the bucket                    *)
(***************************************************************************)

\* C37: a check_limit call that returns False adds no timestamp: the bucket
\* after it is the bucket before it without the entries that had expired at
\* the time the call read.
C37_DeniedAddsNothing ==
    [][(Len(bResults') = Len(bResults) + 1 /\ ~bResults'[Len(bResults')].ok)
        => requests'[BurstClient] =
               SelectSeq(requests[BurstClient],
                         LAMBDA t : bResults'[Len(bResults')].read - t < Window)]_vars

\* C37 witness: a call has been denied and the bucket holds its 100 stamps.
C37_Witness ==
    /\ \E i \in 1..Len(bResults) : ~bResults[i].ok
    /\ Len(requests[BurstClient]) = Limit

(***************************************************************************)
(* ConnectionPool: what it holds and whom it gives it to                   *)
(***************************************************************************)

\* C39: every socket return_connection places in the pool is healthy (its
\* peer has neither closed nor reset the connection) and has no unread
\* bytes, so that get_connection hands out no socket that carries an
\* earlier connection's bytes.
C39_PooledSocketsHealthy ==
    \A k \in Keys : \A i \in DOMAIN pool[k] : peer[pool[k][i]] = "open"

\* C40: no two handlers hold the same socket at once: a socket that
\* get_connection has returned is in no other handler's hands and not in
\* the pool until its handler passes it to return_connection.
C40_ExclusiveSockets ==
    LET Holding == {u \in Users : puPc[u] \in {"holding", "return"}}
    IN  /\ \A u, v \in Holding : u # v => puSock[u] # puSock[v]
        /\ \A u \in Holding : ~InPool(puSock[u])

\* C40 witness: two handlers are in their relay on the same upstream, each
\* with a socket that get_connection took from the pool.
C40_Witness ==
    \E u, v \in Users :
        /\ u # v
        /\ puPc[u] = "holding" /\ puPc[v] = "holding"
        /\ puKey[u] = puKey[v]
        /\ puSock[u] \in 1..MaxPerKey /\ puSock[v] \in 1..MaxPerKey
        /\ puSock[u] # puSock[v]

====
